---- MODULE Spec2Model ----
(***************************************************************************)
(* Model of git-ui (src/src/index.js): the Quick Release and Interactive   *)
(* Mode menus, the two cherry-pick/push execution engines and the range    *)
(* selector they use.  The git commands the program runs are appended to   *)
(* the log `calls` together with their outcome, which the environment      *)
(* chooses.  Spec is the release program; ParseSpec applies parseSelection *)
(* to typed selections; SafetySpec is a call of checkMergeSafety.          *)
(***************************************************************************)
EXTENDS Integers, Sequences, FiniteSets, TLC

(***************************************************************************)
(* Bounds of the model.                                                    *)
(***************************************************************************)
\* number of commits `git log` can list on a branch
MaxCommits == 3
\* number of git commands the environment lets fail in one session
MaxFailures == 1

(***************************************************************************)
(* Strings are sequences of one-character strings.                         *)
(***************************************************************************)
Digits == <<"0", "1", "2", "3", "4", "5", "6", "7", "8", "9">>

IsDigit(c) == \E i \in 1..Len(Digits) : Digits[i] = c

DigitVal(c) == (CHOOSE i \in 1..Len(Digits) : Digits[i] = c) - 1

\* the white space of trim() and of \\s
IsSpace(c) == c \in {" ", "\t", "\n"}

\* the value JavaScript's NaN stands for
NaN == [nan |-> TRUE, val |-> 0]

Num(n) == [nan |-> FALSE, val |-> n]

\* String.prototype.trim
RECURSIVE TrimLeft(_)
TrimLeft(s) ==
    IF s # <<>> /\ IsSpace(Head(s)) THEN TrimLeft(Tail(s)) ELSE s

RECURSIVE TrimRight(_)
TrimRight(s) ==
    IF s # <<>> /\ IsSpace(s[Len(s)]) THEN TrimRight(SubSeq(s, 1, Len(s) - 1)) ELSE s

Trim(s) == TrimRight(TrimLeft(s))

\* String.prototype.includes for a one-character needle
Includes(s, c) == \E i \in 1..Len(s) : s[i] = c

\* String.prototype.split for a one-character separator
RECURSIVE Split(_, _)
Split(s, c) ==
    IF ~Includes(s, c) THEN <<s>>
    ELSE LET i == CHOOSE k \in 1..Len(s) :
                      s[k] = c /\ \A j \in 1..(k - 1) : s[j] # c
         IN  <<SubSeq(s, 1, i - 1)>> \o Split(SubSeq(s, i + 1, Len(s)), c)

\* the value of the longest prefix of decimal digits of s, acc being the
\* value read so far
RECURSIVE DigitsPrefix(_, _)
DigitsPrefix(s, acc) ==
    IF s # <<>> /\ IsDigit(Head(s))
    THEN DigitsPrefix(Tail(s), 10 * acc + DigitVal(Head(s)))
    ELSE acc

\* parseInt(s): leading white space is skipped, an optional sign is read,
\* then the longest run of digits; NaN when there is no digit
ParseInt(s) ==
    LET t    == TrimLeft(s)
        neg  == t # <<>> /\ Head(t) = "-"
        sgn  == t # <<>> /\ Head(t) \in {"-", "+"}
        body == IF sgn THEN Tail(t) ELSE t
    IN  IF body = <<>> \/ ~IsDigit(Head(body)) THEN NaN
        ELSE Num((IF neg THEN -1 ELSE 1) * DigitsPrefix(body, 0))

\* the first of two numbers, whichever is the smaller
FirstOf(a, b) == a

Min(a, b) == IF a <= b THEN a ELSE b

Max(a, b) == IF a >= b THEN a ELSE b

\* an array in the place of the Set: every value is appended
SetAddAgain(seq, x) == Append(seq, x)

\* Set.prototype.add on a Set kept in insertion order
SetAdd(seq, x) ==
    IF \E i \in 1..Len(seq) : seq[i] = x THEN seq ELSE Append(seq, x)

\* the loop "for (i = lo; i <= hi; i++) if (i >= 1 && i <= max) selected.add(i)";
\* its passes with i > max add nothing and are not unrolled
RECURSIVE AddRange(_, _, _, _)
AddRange(seq, lo, hi, max) ==
    IF lo > hi \/ lo > max THEN seq
    ELSE AddRange(IF lo >= 1 /\ lo <= max THEN SetAdd(seq, lo) ELSE seq,
                  lo + 1, hi, max)

\* x put before the first element of the ascending sequence seq greater than it
RECURSIVE InsertSorted(_, _)
InsertSorted(seq, x) ==
    IF seq = <<>> THEN <<x>>
    ELSE IF x <= Head(seq) THEN <<x>> \o seq
    ELSE <<Head(seq)>> \o InsertSorted(Tail(seq), x)

\* Array.prototype.sort((a, b) => a - b)
RECURSIVE SortAsc(_)
SortAsc(seq) ==
    IF seq = <<>> THEN <<>>
    ELSE InsertSorted(SortAsc(Tail(seq)), Head(seq))

\* the iteration without the check of a single number against 1 and max
AddPartAnyNumber(selected, part, max) ==
    IF Includes(part, "-")
    THEN LET pieces == Split(part, "-")
             start  == ParseInt(Trim(pieces[1]))
             end    == ParseInt(Trim(pieces[2]))
         IN  IF ~start.nan /\ ~end.nan
             THEN AddRange(selected, Min(start.val, end.val),
                           Max(start.val, end.val), max)
             ELSE selected
    ELSE LET num == ParseInt(part)
         IN  IF ~num.nan THEN SetAdd(selected, num.val) ELSE selected

\* one iteration of the loop over the comma-separated parts
AddPart(selected, part, max) ==
    IF Includes(part, "-")
    THEN LET pieces == Split(part, "-")
             start  == ParseInt(Trim(pieces[1]))
             end    == ParseInt(Trim(pieces[2]))
         IN  IF ~start.nan /\ ~end.nan
             THEN AddRange(selected, Min(start.val, end.val),
                           Max(start.val, end.val), max)
             ELSE selected
    ELSE LET num == ParseInt(part)
         IN  IF ~num.nan /\ num.val >= 1 /\ num.val <= max
             THEN SetAdd(selected, num.val)
             ELSE selected

RECURSIVE AddParts(_, _, _)
AddParts(selected, parts, max) ==
    IF parts = <<>> THEN selected
    ELSE AddParts(AddPart(selected, Trim(Head(parts)), max), Tail(parts), max)

\* the Set built by parseSelection, in insertion order
SelectedSet(input, max) == AddParts(<<>>, Split(input, ","), max)

\* parseSelection without the final sort
parseSelectionUnsorted(input, max) == SelectedSet(input, max)

parseSelection(input, max) == SortAsc(SelectedSet(input, max))

(***************************************************************************)
(* Commits, branches and remotes of the repository.                        *)
(***************************************************************************)
\* the count runQuickRelease and selectCommitsMenu pass to `git log -<count>`
LogCount == 30

\* A commit is identified by its fullHash, modelled as its chronological
\* number: commit c was made before commit d iff c < d.
\* `git log <branch> -<count> --format=%H` of a branch with n commits: newest
\* first, at most count of them.
\* a history one commit longer than what Quick Release loads
LongHistory == LogCount + 1

\* the numbers of commits origin/develop may have
Histories == 0..MaxCommits \cup {LongHistory}

GitLog(n, count) == [i \in 1..Min(n, count) |-> n + 1 - i]

LocalBranches == <<"develop", "feature">>

RemoteBranches == <<"origin/release">>

\* what `git remote -v` can list, in the order it lists them
RemoteConfigs == {<<>>, <<"origin">>, <<"live", "origin">>}

\* `rev-parse --abbrev-ref HEAD` after a successful checkout of ref: a remote
\* tracking ref leaves HEAD detached
HeadAfterCheckout(ref) ==
    IF \E i \in 1..Len(LocalBranches) : LocalBranches[i] = ref THEN ref ELSE "HEAD"

(***************************************************************************)
(* What the operator can type at the prompts.                              *)
(***************************************************************************)
\* the decimal numeral of a one-digit index
Numeral(i) == <<Digits[i + 1]>>

RECURSIVE JoinComma(_)
JoinComma(indices) ==
    IF indices = <<>> THEN <<>>
    ELSE IF Len(indices) = 1 THEN Numeral(indices[1])
    ELSE Numeral(indices[1]) \o <<",">> \o JoinComma(Tail(indices))

\* the orders in which the indices 1..n can be entered
IndexOrders(n) ==
    {q \in [1..n -> 1..n] : \A i, j \in 1..n : i # j => q[i] # q[j]}

\* answers to a "Selection:" prompt: the indices 1..MaxCommits in every
\* order, single indices, pairs in both orders, the two cancel answers,
\* ranges in both directions, an index out of range and a word
SelectionInputs ==
    {JoinComma(q) : q \in IndexOrders(MaxCommits)}
        \cup {<<"1">>, <<"2">>, <<"3">>, <<"2", ",", "1">>, <<"1", ",", "3">>,
              <<"3", ",", "2">>, <<>>, <<"0">>, <<"1", "-", "2">>,
              <<"3", "-", "2">>, <<"2", ",", " ", "1", "-", "2">>, <<"9">>,
              <<"a", "b">>}

\* answers to the "Target branch:" prompt, as typed: nothing, blanks, and a
\* branch name with and without blanks around it
TargetInputs == {<<>>, <<" ", " ">>, <<"h", "o", "t", "f", "i", "x">>,
                 <<" ", "h", "o", "t", "f", "i", "x", " ">>}

\* the string of a trimmed answer to the "Target branch:" prompt
BranchName(chars) == IF chars = <<>> THEN "" ELSE "hotfix"

(***************************************************************************)
(* State.                                                                  *)
(***************************************************************************)
VARIABLES
    pc,               \* position of the program
    workflow,         \* "quick" or "interactive" once main has entered one
    args,             \* process.argv, parsed: [mode, k, dryRun, yes]
    skipAllConfirm,   \* the global flag of line 33
    dryRun,           \* the dryRun parameter of runQuickRelease
    head,             \* what `rev-parse --abbrev-ref HEAD` reports
    dirty,            \* the work tree had uncommitted tracked changes when
                      \* the pre-flight check looked
    remoteNames,      \* the configured remotes
    allCommits,       \* runQuickRelease: the commits of origin/develop
    selectedCommits,  \* the commit selection of the running menu
    selectedRemotes,  \* runInteractiveMode: the remote selection
    targetBranch,     \* runInteractiveMode: the target branch name
    calls,            \* the git commands issued, with their outcomes, since
                      \* the process started or, once a release run was
                      \* started from the interactive menu, by that run
    failures,         \* number of git commands that failed so far
    runHead,          \* head when the operator launched the release run
    execStart,        \* Len(calls) when the execute function was entered
    runCommits,       \* the commits argument of the execute function
    runRemotes,       \* the remotes argument of the execute function
    hasLiveRemote,    \* executeQuickRelease: remoteExists('live')
    originalBranch,   \* executeQuickRelease: the branch saved for restoring
    idx,              \* loop index of the cherry-pick and push loops
    outcome,          \* how the execute function ended
    exitCode,         \* -1 while the process runs, then its exit code
    typedInput,       \* parseSelection: its input, the string typed
    listLength,       \* parseSelection: its max, the length of the list
    resultIndices,    \* the result of parseSelection(input, max)
    parsed,           \* parseSelection has returned
    checkedCommits,   \* checkMergeSafety: its commits argument
    targetFiles,      \* what `git diff --name-only <current>...<target>` lists
    checkStatus,      \* what each of the four checks reported
    checkFailed,      \* whether a git query of each check failed
    conflictFiles,    \* check 1: the files listed as potential conflicts
    nameIssues,       \* check 2: the issues hasInvalidNames returned
    largeFiles,       \* check 3: the files listed as large
    binaryFiles,      \* check 4: the files listed as binary
    confirmAnswers,   \* what was typed at the confirmation prompt of the run
    hasIssues,        \* checkMergeSafety: hasIssues
    checkCalls,       \* the git commands the running checkMergeSafety issued
    mode,             \* goToCommit: mode ("detach", "soft", "mixed", "hard")
    resolved,         \* goToCommit: the commit the ref resolved to (0: none)
    syncPlan          \* the ExecutionPlan of the running sync

\* the variables of a call of checkMergeSafety
safetyVars == <<checkedCommits, targetFiles, checkStatus, checkFailed,
                conflictFiles, nameIssues, largeFiles, binaryFiles, hasIssues,
                checkCalls>>

\* the variables of a call of parseSelection
parseVars == <<typedInput, listLength, resultIndices, parsed>>

\* the variables of the release program
releaseVars == <<pc, workflow, args, skipAllConfirm, dryRun, head, dirty,
                 remoteNames, allCommits, selectedCommits, selectedRemotes,
                 targetBranch, calls, failures, runHead, execStart, runCommits,
                 runRemotes, hasLiveRemote, originalBranch, idx, outcome,
                 exitCode>>

\* what a call of checkMergeSafety from a menu leaves as it is in the model
reportVars == <<checkedCommits, targetFiles, checkStatus, checkFailed,
                conflictFiles, nameIssues, largeFiles, binaryFiles>>

\* the variables of a call of goToCommit
utilVars == <<mode, resolved>>

vars == <<releaseVars, parseVars, safetyVars, confirmAnswers, utilVars,
          syncPlan>>

\* what no step of the release program changes
\* the arguments, the remotes and the variables of the other specifications
fixedVars == <<args, remoteNames, parseVars, safetyVars, utilVars, syncPlan>>

envVars == <<fixedVars, confirmAnswers>>

flowVars == <<workflow, skipAllConfirm, dryRun>>

execVars == <<runCommits, runRemotes, hasLiveRemote, originalBranch, idx>>

menuVars == <<allCommits, selectedCommits, selectedRemotes, targetBranch>>

runVars == <<runHead, execStart>>

\* what no step of a developer utility changes
toolVars == <<args, remoteNames, parseVars, safetyVars, menuVars, runVars,
              runRemotes, hasLiveRemote, originalBranch, syncPlan>>

\* no sync is running
NoPlan == [sourceRef |-> "", targetRef |-> "", commits |-> <<>>,
           canFastForward |-> TRUE, forceRequired |-> FALSE]

(***************************************************************************)
(* The git commands and their log.                                         *)
(***************************************************************************)
\* one entry of the log: the command, the ref, branch or remote it names,
\* the commit it names (0: none), the refspec of a push, and whether it
\* succeeded
GitCall(cmd, ref, commit, src, dst, ok) ==
    [cmd |-> cmd, ref |-> ref, commit |-> commit, src |-> src, dst |-> dst, ok |-> ok]

Query(cmd, ok) == GitCall(cmd, "", 0, "", "", ok)

Fetch(ok) == GitCall("fetch", "--all", 0, "", "", ok)

Checkout(ref, ok) == GitCall("checkout", ref, 0, "", "", ok)

Pull(remote, branch, ok) == GitCall("pull", remote, 0, "", branch, ok)

CherryPick(commit, ok) == GitCall("cherry-pick", "", commit, "", "", ok)

Push(remote, src, dst, ok) == GitCall("push", remote, 0, src, dst, ok)

FailedCalls(log) == Cardinality({i \in 1..Len(log) : ~log[i].ok})

\* the outcomes the environment may give the next git command, n commands
\* of the running step having failed
OutcomesAfter(n) == IF failures + n < MaxFailures THEN BOOLEAN ELSE {TRUE}

Outcomes == OutcomesAfter(0)

\* the outcomes of a git command that names the remote or one of its
\* tracking refs: it fails where the remote is not configured
OutcomesOn(remote) ==
    IF \E i \in 1..Len(remoteNames) : remoteNames[i] = remote
    THEN Outcomes ELSE {FALSE}

\* the running step issued the commands new
Issue(new) ==
    /\ calls' = calls \o new
    /\ failures' = failures + FailedCalls(new)

\* a choice of the interactive menu issued the commands new, which the log
\* leaves out
IssueUnlogged(new) ==
    /\ UNCHANGED calls
    /\ failures' = failures + FailedCalls(new)

\* the commands that change the repository, the work tree or a remote
MutatingCmds == {"checkout", "pull", "cherry-pick", "push", "revert", "reset",
                 "cherry-pick --continue", "cherry-pick --abort"}

\* the diff-tree queries of a check over n commits, one for each commit
DiffTrees(n) == [k \in 1..n |-> Query("diff-tree", TRUE)]

\* a check left by its outer catch: a diff-tree failed
DiffTreeFailed == <<Query("diff-tree", FALSE)>>

\* the queries of one call of checkMergeSafety on n commits: treeOk[i] tells
\* whether the diff-tree queries of check i succeeded, branchOk and diffOk
\* whether the rev-parse and the diff of the first check did
SafetyQueries(n, treeOk, branchOk, diffOk) ==
    (IF treeOk[1]
     THEN DiffTrees(n) \o <<Query("rev-parse", branchOk), Query("diff", diffOk)>>
     ELSE DiffTreeFailed)
    \o (IF treeOk[2] THEN DiffTrees(n) ELSE DiffTreeFailed)
    \o (IF treeOk[3] THEN DiffTrees(n) ELSE DiffTreeFailed)
    \o (IF treeOk[4] THEN DiffTrees(n) ELSE DiffTreeFailed)

\* the outcomes the environment may give the queries of one call of
\* checkMergeSafety
SafetyOutcomes ==
    { o \in [treeOk : [1..4 -> BOOLEAN], branchOk : BOOLEAN, diffOk : BOOLEAN] :
        /\ ~o.treeOk[1] => (o.branchOk /\ o.diffOk)
        /\ ~o.branchOk => ~o.diffOk
        /\ failures + FailedCalls(SafetyQueries(0, o.treeOk, o.branchOk, o.diffOk))
              <= MaxFailures }

\* the values of hasIssues a call of checkMergeSafety may end with: a check
\* whose query failed records nothing, and binary files never set it
IssuesAfter(o) ==
    IF (o.treeOk[1] /\ o.diffOk) \/ o.treeOk[2] \/ o.treeOk[3]
    THEN BOOLEAN ELSE {FALSE}

\* a menu choice called checkMergeSafety on n commits: the report is on the
\* screen
SafetyReport(n) ==
    \E o \in SafetyOutcomes :
        /\ checkCalls' = SafetyQueries(n, o.treeOk, o.branchOk, o.diffOk)
        /\ hasIssues' \in IssuesAfter(o)
        /\ failures' = failures + FailedCalls(checkCalls')

\* checkMergeSafety returned: its locals are gone
SafetyReturn ==
    /\ checkCalls' = <<>>
    /\ hasIssues' = FALSE

\* getCurrentBranch(), given the outcome of its rev-parse
getCurrentBranch(ok) == IF ok THEN head ELSE "unknown"

\* a check of the work tree that takes a failed query for uncommitted changes
hasUncommittedChangesOrUnknown(ok, tracked) == IF ok THEN tracked ELSE TRUE

\* hasUncommittedChanges(), given the outcome of its status query and what
\* the work tree holds
hasUncommittedChanges(ok, tracked) == IF ok THEN tracked ELSE FALSE

\* getRemotes(), given the outcome of `git remote -v`: the keys of the object
getRemotes(ok) == IF ok THEN remoteNames ELSE <<>>

\* remoteExists(name), given the outcome of the query of getRemotes
remoteExists(name, ok) ==
    \E i \in 1..Len(getRemotes(ok)) : getRemotes(ok)[i] = name

\* getCommitsFromBranch(branch, count) of a branch of n commits, given the
\* outcome of its `git log`
getCommitsFromBranch(n, count, ok) == IF ok THEN GitLog(n, count) ELSE <<>>

\* getBranches(), given the outcome of its `git branch` queries: local, then
\* remote
getBranches(ok) == IF ok THEN LocalBranches \o RemoteBranches ELSE <<>>

\* indices.map(i => list[i - 1])
MapIndices(indices, list) == [i \in 1..Len(indices) |-> list[indices[i]]]

\* Array.prototype.slice(0, n)
SliceTo(seq, n) == SubSeq(seq, 1, Min(n, Len(seq)))

\* [...commits].reverse()
Reverse(seq) == [i \in 1..Len(seq) |-> seq[Len(seq) + 1 - i]]

\* the commits cherry-picked in the order of the selection
OrderedCommitsAsSelected(commits) == commits

\* the order in which the execute functions cherry-pick the commits
OrderedCommits(commits) == Reverse(commits)

\* the ref `remote/branch`
RemoteRef(remote, branch) == remote \o "/" \o branch

\* prompt(question): the answer, trimmed
Prompt(answer) == Trim(answer)

LowerCase == <<"a", "b", "c", "d", "e", "f", "g", "h", "i", "j", "k", "l", "m",
               "n", "o", "p", "q", "r", "s", "t", "u", "v", "w", "x", "y", "z">>

UpperCase == <<"A", "B", "C", "D", "E", "F", "G", "H", "I", "J", "K", "L", "M",
               "N", "O", "P", "Q", "R", "S", "T", "U", "V", "W", "X", "Y", "Z">>

\* the character as the flag i of a pattern compares it
ToUpper(c) ==
    IF \E k \in 1..Len(LowerCase) : LowerCase[k] = c
    THEN UpperCase[CHOOSE k \in 1..Len(LowerCase) : LowerCase[k] = c]
    ELSE c

ToUpperCase(str) == [k \in 1..Len(str) |-> ToUpper(str[k])]

\* String.prototype.toLowerCase() of a character and of a string
ToLower(c) ==
    IF \E k \in 1..Len(UpperCase) : UpperCase[k] = c
    THEN LowerCase[CHOOSE k \in 1..Len(UpperCase) : UpperCase[k] = c]
    ELSE c

ToLowerCase(str) == [k \in 1..Len(str) |-> ToLower(str[k])]

\* what the operator may type at a confirmation prompt
ConfirmInputs == {<<"y">>, <<" ", "Y", "E", "S">>, <<"y", "e", "s", "!">>,
                  <<"n">>, <<>>}

\* a confirmation that takes every answer that is not empty as a yes
confirmAnyAnswer(typed) ==
    IF skipAllConfirm THEN TRUE ELSE Prompt(typed) # <<>>

\* confirm(question), the operator typing typed if the prompt is shown
confirm(typed) ==
    IF skipAllConfirm THEN TRUE
    ELSE ToLowerCase(Prompt(typed)) \in {<<"y">>, <<"y", "e", "s">>}

\* the confirmation prompts confirm(question) has shown the operator typing
\* typed
Asking(typed) == IF skipAllConfirm THEN <<>> ELSE <<typed>>

\* what may be typed at the prompt of confirm(question): nothing where it is
\* not shown
Typed == IF skipAllConfirm THEN {<<>>} ELSE ConfirmInputs

\* what confirm(question) may return, over everything that may be typed
Confirmed == {confirm(typed) : typed \in Typed}

(***************************************************************************)
(* Initial state: the process has been started with some arguments in a    *)
(* repository whose current branch is feature.                             *)
(***************************************************************************)
\* the flags main looks for
DryRunFlag == <<"-", "-", "d", "r", "y", "-", "r", "u", "n">>

YesFlags == {<<"-", "y">>, <<"-", "-", "y", "e", "s">>}

HelpFlags == {<<"-", "-", "h", "e", "l", "p">>, <<"-", "h">>}

StatusFlag == <<"-", "-", "s", "t", "a", "t", "u", "s">>

InteractiveFlags == {<<"-", "i">>, <<"-", "-", "i", "n", "t", "e", "r", "a", "c", "t", "i", "v", "e">>}

\* the decimal numeral of a number
RECURSIVE NumberArg(_)
NumberArg(n) ==
    IF n < 10 THEN Numeral(n) ELSE NumberArg(n \div 10) \o Numeral(n % 10)

\* the command line `git-ui first rest...`; no argument at all is written
\* as an empty first argument
CommandLine(first, rest) == [first |-> first, second |-> <<>>, rest |-> rest]

\* a command line whose first argument is followed by a value: args[1]
CommandLineWith(first, second, rest) ==
    [first |-> first, second |-> second, rest |-> rest]

NoArguments == CommandLine(<<>>, {})

RevertFlag == <<"-", "-", "r", "e", "v", "e", "r", "t">>

GotoFlag == <<"-", "-", "g", "o", "t", "o">>

SoftFlag == <<"-", "-", "s", "o", "f", "t">>

MixedFlag == <<"-", "-", "m", "i", "x", "e", "d">>

HardFlag == <<"-", "-", "h", "a", "r", "d">>

UtilitiesFlags == {<<"-", "u">>, <<"-", "-", "u", "t", "i", "l", "i", "t", "i", "e", "s">>}

\* first arguments that are no count of commits
BadCounts == {<<"a", "b", "c">>, <<"0">>, <<"-", "2">>, <<"2", "a", "b", "c">>, <<"-", "y">>}

\* the command lines the process is started with: a count with or without
\* --dry-run and -y, the long history with -y, no argument, -i with or
\* without the flags, a first argument that is no count, --status, and the
\* help flags alone, after a count, before -i and with --status
ArgSets ==
    {CommandLine(NumberArg(k), flags) :
        k \in 1..(MaxCommits + 1), flags \in SUBSET {DryRunFlag, <<"-", "y">>}}
        \cup {CommandLine(NumberArg(LongHistory), {<<"-", "y">>})}
        \cup {NoArguments}
        \cup {CommandLine(<<"-", "i">>, flags) : flags \in SUBSET {DryRunFlag, <<"-", "y">>}}
        \cup {CommandLine(first, {}) : first \in BadCounts}
        \cup {CommandLine(StatusFlag, {})}
        \cup {CommandLine(first, {}) : first \in HelpFlags}
        \cup {CommandLine(NumberArg(2), {<<"-", "-", "h", "e", "l", "p">>, <<"-", "y">>}),
              CommandLine(<<"-", "i">>, {<<"-", "h">>}),
              CommandLine(<<"-", "-", "h", "e", "l", "p">>, {StatusFlag}),
              CommandLine(<<"-", "-", "y", "e", "s">>, {<<"-", "-", "h", "e", "l", "p">>})}
        \cup {CommandLineWith(GotoFlag, <<"H", "E", "A", "D", "~", "2">>, how \cup flags) :
                 how \in {{}, {SoftFlag}, {MixedFlag}, {HardFlag}},
                 flags \in SUBSET {DryRunFlag, <<"-", "y">>}}
        \cup {CommandLineWith(RevertFlag, NumberArg(k), flags) :
                 k \in 1..MaxCommits, flags \in SUBSET {DryRunFlag, <<"-", "y">>}}
        \cup {CommandLine(GotoFlag, {}), CommandLineWith(GotoFlag, HardFlag, {}),
              CommandLine(RevertFlag, {}), CommandLineWith(RevertFlag, <<"x">>, {}),
              CommandLineWith(RevertFlag, <<"0">>, {<<"-", "y">>})}
        \cup {CommandLine(flag, {}) : flag \in UtilitiesFlags}

\* the command lines of the developer utilities, which read no remote
UtilityArgs ==
    {line \in ArgSets : line.first \in {GotoFlag, RevertFlag} \cup UtilitiesFlags}

\* args.includes(flag)
ArgsInclude(flag) == args.first = flag \/ args.second = flag \/ flag \in args.rest

\* args.length === 0
NoArgs == args.first = <<>> /\ args.second = <<>> /\ args.rest = {}

\* const dryRun = args.includes('--dry-run')
ArgDryRun == ArgsInclude(DryRunFlag)

\* args.includes('-y') || args.includes('--yes')
ArgYes == \E flag \in YesFlags : ArgsInclude(flag)

\* args.includes('--help') || args.includes('-h')
ArgHelp == \E flag \in HelpFlags : ArgsInclude(flag)

\* args.includes('-i') || args.includes('--interactive')
ArgInteractive == \E flag \in InteractiveFlags : ArgsInclude(flag)

\* getFlagValue([flag]) for a flag that is the first argument: the argument
\* that follows it unless it starts with '-' (<<>>: null)
GetFlagValue(flag) ==
    IF args.first = flag /\ args.second # <<>> /\ Head(args.second) # "-"
    THEN args.second ELSE <<>>

\* a main whose go-to-commit resets unless told otherwise
ArgModeResetByDefault ==
    IF ArgsInclude(SoftFlag) THEN "soft"
    ELSE IF ArgsInclude(HardFlag) THEN "hard"
    ELSE "mixed"

\* the mode main passes to goToCommit
ArgMode ==
    IF ArgsInclude(SoftFlag) THEN "soft"
    ELSE IF ArgsInclude(MixedFlag) THEN "mixed"
    ELSE IF ArgsInclude(HardFlag) THEN "hard"
    ELSE "detach"

\* args.includes('-u') || args.includes('--utilities')
ArgUtilities == \E flag \in UtilitiesFlags : ArgsInclude(flag)

\* const k = parseInt(args[0], 10)
ArgK == ParseInt(args.first)

\* !isNaN(k) && k >= 1
ArgKValid == ~ArgK.nan /\ ArgK.val >= 1

\* the initialK runQuickRelease is called with (0: null)
InitialK == IF ArgKValid THEN ArgK.val ELSE 0

Init ==
    /\ pc = "main"
    /\ workflow = "none"
    /\ args \in ArgSets
    /\ skipAllConfirm = FALSE
    /\ dryRun = FALSE
    /\ head = "feature"
    /\ dirty = FALSE
    /\ remoteNames \in IF args \in UtilityArgs THEN {<<"origin">>} ELSE RemoteConfigs
    /\ allCommits = <<>>
    /\ selectedCommits = <<>>
    /\ selectedRemotes = <<>>
    /\ targetBranch = "release"
    /\ calls = <<>>
    /\ failures = 0
    /\ runHead = "feature"
    /\ execStart = 0
    /\ runCommits = <<>>
    /\ runRemotes = <<>>
    /\ hasLiveRemote = FALSE
    /\ originalBranch = ""
    /\ idx = 0
    /\ outcome = "none"
    /\ exitCode = -1
    /\ typedInput = <<>>
    /\ listLength = 0
    /\ resultIndices = <<>>
    /\ parsed = FALSE
    /\ checkedCommits = <<>>
    /\ targetFiles = <<>>
    /\ checkStatus = <<"pending", "pending", "pending", "pending">>
    /\ checkFailed = <<FALSE, FALSE, FALSE, FALSE>>
    /\ conflictFiles = <<>>
    /\ nameIssues = <<>>
    /\ largeFiles = <<>>
    /\ binaryFiles = <<>>
    /\ hasIssues = FALSE
    /\ confirmAnswers = <<>>
    /\ checkCalls = <<>>
    /\ mode = "detach"
    /\ resolved = 0
    /\ syncPlan = NoPlan

\* process.exit(code), or main returning
Exit(code) ==
    /\ pc' = "done"
    /\ exitCode' = code

\* the execute function returns with the given outcome; its caller returns
\* to main, which returns: the process ends with code 0
Return(result) ==
    /\ outcome' = result
    /\ Exit(0)

(***************************************************************************)
(* main and showMainMenu                                                   *)
(***************************************************************************)
\* runInteractiveMode() is entered
EnterInteractiveMode ==
    /\ workflow' = "interactive"
    /\ pc' = "im_fetch"
    /\ UNCHANGED <<dryRun, runVars>>

\* runQuickRelease(initialK, skipConfirm, dryRun) is entered: a release run
\* starts
EnterQuickRelease(skipConfirm, dry) ==
    /\ skipAllConfirm' = (ArgYes \/ skipConfirm)
    /\ dryRun' = dry
    /\ workflow' = "quick"
    /\ pc' = "qr_fetch"
    /\ runHead' = head
    /\ execStart' = execStart

\* main reached a mode that runs outside the release workflows, or none
NoWorkflow(result, code) ==
    /\ skipAllConfirm' = ArgYes
    /\ outcome' = result
    /\ Exit(code)
    /\ UNCHANGED <<workflow, dryRun, runVars>>

\* main reached a developer utility: a call of revertLastCommits or of
\* goToCommit, or showUtilitiesMenu()
EnterUtility(name, at, dry) ==
    /\ skipAllConfirm' = ArgYes
    /\ workflow' = name
    /\ dryRun' = dry
    /\ pc' = at
    /\ UNCHANGED <<runVars, outcome, exitCode>>

\* a main that looks for the utility flags before the help flags
MainHelpAfterUtilities ==
    /\ pc = "main"
    /\ IF ArgsInclude(StatusFlag)
       THEN /\ \E ok \in Outcomes : Issue(<<Query("status", ok)>>)
            /\ NoWorkflow("status", 0)
       ELSE IF ArgHelp
       THEN /\ NoWorkflow("usage", 0)
            /\ UNCHANGED <<calls, failures>>
       ELSE IF ArgInteractive
       THEN /\ skipAllConfirm' = ArgYes
            /\ EnterInteractiveMode
            /\ UNCHANGED <<calls, failures, outcome, exitCode>>
       ELSE IF ArgKValid
       THEN /\ EnterQuickRelease(ArgYes, ArgDryRun)
            /\ UNCHANGED <<calls, failures, outcome, exitCode>>
       ELSE IF NoArgs
       THEN /\ skipAllConfirm' = ArgYes
            /\ pc' = "mainmenu"
            /\ UNCHANGED <<workflow, dryRun, runVars, calls, failures, outcome,
                           exitCode>>
       ELSE /\ NoWorkflow("invalid arguments", 1)
            /\ UNCHANGED <<calls, failures>>
    /\ UNCHANGED <<envVars, head, dirty, menuVars, execVars>>

Main ==
    /\ pc = "main"
    /\ IF ArgHelp
       THEN /\ NoWorkflow("usage", 0)
            /\ UNCHANGED <<calls, failures>>
       ELSE IF ArgsInclude(StatusFlag)
       THEN /\ \E ok \in Outcomes : Issue(<<Query("status", ok)>>)
            /\ NoWorkflow("status", 0)
       ELSE IF ArgsInclude(RevertFlag)
       THEN /\ IF GetFlagValue(RevertFlag) = <<>>
               THEN NoWorkflow("missing value", 1)
               ELSE EnterUtility("revert", "rv_load", ArgDryRun)
            /\ UNCHANGED <<calls, failures>>
       ELSE IF ArgsInclude(GotoFlag)
       THEN /\ IF GetFlagValue(GotoFlag) = <<>>
               THEN NoWorkflow("missing value", 1)
               ELSE EnterUtility("goto", "gt_resolve", ArgDryRun)
            /\ UNCHANGED <<calls, failures>>
       ELSE IF ArgUtilities
       THEN /\ EnterUtility("utilities", "um_menu", FALSE)
            /\ UNCHANGED <<calls, failures>>
       ELSE IF ArgInteractive
       THEN /\ skipAllConfirm' = ArgYes
            /\ EnterInteractiveMode
            /\ UNCHANGED <<calls, failures, outcome, exitCode>>
       ELSE IF ArgKValid
       THEN /\ EnterQuickRelease(ArgYes, ArgDryRun)
            /\ UNCHANGED <<calls, failures, outcome, exitCode>>
       ELSE IF NoArgs
       THEN /\ skipAllConfirm' = ArgYes
            /\ pc' = "mainmenu"
            /\ UNCHANGED <<workflow, dryRun, runVars, calls, failures, outcome,
                           exitCode>>
       ELSE /\ NoWorkflow("invalid arguments", 1)
            /\ UNCHANGED <<calls, failures>>
    /\ mode' = IF ArgsInclude(GotoFlag) THEN ArgMode ELSE mode
    /\ UNCHANGED <<args, remoteNames, parseVars, safetyVars, confirmAnswers,
                   resolved, syncPlan, head, dirty, menuVars, execVars>>

showMainMenu ==
    /\ pc = "mainmenu"
    /\ \E choice \in {"1", "2", "3", "0", "x"} :
          \/ /\ choice = "1"
             /\ EnterQuickRelease(FALSE, FALSE)
             /\ UNCHANGED exitCode
          \/ /\ choice = "3"
             /\ workflow' = "utilities"
             /\ pc' = "um_menu"
             /\ UNCHANGED <<skipAllConfirm, dryRun, runVars, exitCode>>
          \/ /\ choice = "2"
             /\ EnterInteractiveMode
             /\ UNCHANGED <<skipAllConfirm, exitCode>>
          \/ /\ choice \in {"0", "x"}
             /\ Exit(0)
             /\ UNCHANGED <<flowVars, runVars>>
    /\ UNCHANGED <<envVars, head, dirty, menuVars, calls, failures, execVars,
                   outcome>>

(***************************************************************************)
(* runQuickRelease: fetch, sync with develop, load the commits             *)
(***************************************************************************)
QR_Fetch ==
    /\ pc = "qr_fetch"
    /\ \E ok \in Outcomes :
          /\ Issue(<<Fetch(ok)>>)
          /\ IF ok THEN pc' = "qr_checkout" /\ UNCHANGED exitCode
                   ELSE Exit(1)
    /\ UNCHANGED <<envVars, flowVars, head, dirty, menuVars,
                   runVars, execVars, outcome>>

QR_CheckoutDevelop ==
    /\ pc = "qr_checkout"
    /\ \E ok \in Outcomes :
          /\ Issue(<<Checkout("develop", ok)>>)
          /\ IF ok THEN /\ pc' = "qr_pull"
                        /\ head' = HeadAfterCheckout("develop")
                        /\ UNCHANGED exitCode
                   ELSE Exit(1) /\ UNCHANGED head
    /\ UNCHANGED <<envVars, flowVars, dirty, menuVars, runVars,
                   execVars, outcome>>

\* a pull whose failure ends the process like that of the fetch
QR_PullFatal ==
    /\ pc = "qr_pull"
    /\ \E ok \in OutcomesOn("origin") :
          /\ Issue(<<Pull("origin", "develop", ok)>>)
          /\ IF ok THEN pc' = "qr_load" /\ UNCHANGED exitCode
                   ELSE Exit(1)
    /\ UNCHANGED <<envVars, flowVars, head, dirty, menuVars,
                   runVars, execVars, outcome>>

QR_Pull ==
    /\ pc = "qr_pull"
    /\ \E ok \in OutcomesOn("origin") : Issue(<<Pull("origin", "develop", ok)>>)
    /\ pc' = "qr_load"
    /\ UNCHANGED <<envVars, flowVars, head, dirty, menuVars,
                   runVars, execVars, outcome, exitCode>>

\* the pre-selection of runQuickRelease(initialK, ...)
PreSelect(initialK, commits) ==
    IF initialK > 0 THEN SliceTo(commits, Min(initialK, Len(commits))) ELSE <<>>

QR_Load ==
    /\ pc = "qr_load"
    /\ \E ok \in OutcomesOn("origin"), n \in Histories :
          LET commits == getCommitsFromBranch(n, LogCount, ok) IN
          /\ Issue(<<Query("log", ok)>>)
          /\ allCommits' = commits
          /\ IF Len(commits) = 0
             THEN Exit(1) /\ UNCHANGED selectedCommits
             ELSE /\ selectedCommits' = PreSelect(InitialK, commits)
                  /\ pc' = "qr_menu"
                  /\ UNCHANGED exitCode
    /\ UNCHANGED <<envVars, flowVars, head, dirty,
                   selectedRemotes, targetBranch, runVars, execVars, outcome>>

(***************************************************************************)
(* runQuickRelease: the menu loop.  The remoteExists('live') of line 1348, *)
(* whose result is only printed, is not modelled.                          *)
(***************************************************************************)
\* a selection that is added to the one made before
quickSelectCommitsExtending(commits, input) ==
    IF input = <<"0">> \/ input = <<>> THEN selectedCommits
    ELSE selectedCommits \o MapIndices(parseSelection(input, Len(commits)), commits)

\* quickSelectCommits(allCommits), the operator answering input
quickSelectCommits(commits, input) ==
    IF input = <<"0">> \/ input = <<>> THEN <<>>
    ELSE MapIndices(parseSelection(input, Len(commits)), commits)

\* what a choice of a menu that selects commits leaves as it is, the
\* selection and what was typed apart
selectIdle == <<args, remoteNames, resultIndices, parsed, safetyVars, utilVars,
                syncPlan, confirmAnswers, pc, flowVars, head, dirty, allCommits,
                selectedRemotes, targetBranch, runVars, execVars, outcome,
                exitCode>>

\* case '1' of the menu of Quick Release, the operator typing answer
QuickSelect(answer) ==
    /\ pc = "qr_menu"
    /\ selectedCommits' = quickSelectCommits(allCommits, Prompt(answer))
    /\ UNCHANGED <<selectIdle, calls, failures>>

QR_SelectCommits ==
    /\ pc = "qr_menu"
    /\ \E answer \in SelectionInputs : QuickSelect(answer)
    /\ UNCHANGED <<typedInput, listLength>>

QR_Reset ==
    /\ pc = "qr_menu"
    /\ selectedCommits' = <<>>
    /\ UNCHANGED <<envVars, pc, flowVars, head, dirty, allCommits,
                   selectedRemotes, targetBranch, calls, failures, runVars,
                   execVars, outcome, exitCode>>

\* choice 2 or 4 with nothing selected, or a choice the menu does not know
QR_Refused ==
    /\ pc = "qr_menu"
    /\ \E choice \in {"2", "4", "x"} :
          choice \in {"2", "4"} => Len(selectedCommits) = 0
    /\ UNCHANGED vars

\* choice 2 with a selection: the safety check runs and shows its report
QR_CheckSafety ==
    /\ pc = "qr_menu"
    /\ Len(selectedCommits) # 0
    /\ SafetyReport(Len(selectedCommits))
    /\ pc' = "qr_check"
    /\ UNCHANGED <<args, remoteNames, parseVars, utilVars, syncPlan, reportVars, confirmAnswers,
                   flowVars, head,
                   dirty, menuVars, calls, runVars, execVars, outcome, exitCode>>

\* a safety check that gates the release: issues drop the selection
QR_CheckReturnBlocking ==
    /\ pc = "qr_check"
    /\ SafetyReturn
    /\ pc' = "qr_menu"
    /\ selectedCommits' = IF hasIssues THEN <<>> ELSE selectedCommits
    /\ UNCHANGED <<args, remoteNames, parseVars, utilVars, syncPlan, reportVars, confirmAnswers,
                   flowVars, head,
                   dirty, allCommits, selectedRemotes, targetBranch, calls,
                   failures, runVars, execVars, outcome, exitCode>>

\* the safety check returns to the menu
QR_CheckReturn ==
    /\ pc = "qr_check"
    /\ SafetyReturn
    /\ pc' = "qr_menu"
    /\ UNCHANGED <<args, remoteNames, parseVars, utilVars, syncPlan, reportVars, confirmAnswers,
                   flowVars, head,
                   dirty, menuVars, calls, failures, runVars, execVars, outcome,
                   exitCode>>

QR_Execute ==
    /\ pc = "qr_menu"
    /\ Len(selectedCommits) # 0
    /\ runCommits' = selectedCommits
    /\ execStart' = Len(calls)
    /\ pc' = "qe_confirm"
    /\ UNCHANGED <<envVars, flowVars, head, dirty, menuVars, calls,
                   failures, runHead, runRemotes, hasLiveRemote, originalBranch,
                   idx, outcome, exitCode>>

QR_Exit ==
    /\ pc = "qr_menu"
    /\ Exit(0)
    /\ UNCHANGED <<envVars, flowVars, head, dirty, menuVars, calls,
                   failures, runVars, execVars, outcome>>

(***************************************************************************)
(* executeQuickRelease(commits, dryRun)                                    *)
(***************************************************************************)
\* a confirmation whose refusal leads back to the menu
QE_ConfirmOrMenu ==
    /\ pc = "qe_confirm"
    /\ \E ok \in Outcomes, typed \in Typed :
          /\ Issue(<<Query("remote", ok)>>)
          /\ hasLiveRemote' = remoteExists("live", ok)
          /\ confirmAnswers' = Asking(typed)
          /\ IF confirm(typed)
             THEN pc' = "qe_preflight" /\ UNCHANGED <<outcome, exitCode>>
             ELSE pc' = "qr_menu" /\ UNCHANGED <<outcome, exitCode>>
    /\ UNCHANGED <<fixedVars, flowVars, head, dirty, menuVars,
                   runVars, runCommits, runRemotes, originalBranch, idx>>

QE_Confirm ==
    /\ pc = "qe_confirm"
    /\ \E ok \in Outcomes, typed \in Typed :
          /\ Issue(<<Query("remote", ok)>>)
          /\ hasLiveRemote' = remoteExists("live", ok)
          /\ confirmAnswers' = Asking(typed)
          /\ IF confirm(typed)
             THEN pc' = "qe_preflight" /\ UNCHANGED <<outcome, exitCode>>
             ELSE Return("cancelled")
    /\ UNCHANGED <<fixedVars, flowVars, head, dirty, menuVars,
                   runVars, runCommits, runRemotes, originalBranch, idx>>

\* the pre-flight check and "Save original branch"; the work tree is in the
\* state the operator left it in
QE_Preflight ==
    /\ pc = "qe_preflight"
    /\ confirmAnswers' = <<>>
    /\ \E ok \in Outcomes, tracked \in BOOLEAN :
          /\ dirty' = tracked
          /\ IF hasUncommittedChanges(ok, tracked)
             THEN /\ Issue(<<Query("status", ok)>>)
                  /\ Return("dirty")
                  /\ UNCHANGED originalBranch
             ELSE \E ok2 \in OutcomesAfter(IF ok THEN 0 ELSE 1) :
                     /\ Issue(<<Query("status", ok), Query("rev-parse", ok2)>>)
                     /\ originalBranch' = getCurrentBranch(ok2)
                     /\ pc' = "qe_checkout"
                     /\ UNCHANGED <<outcome, exitCode>>
    /\ UNCHANGED <<fixedVars, flowVars, head, menuVars, runVars,
                   runCommits, runRemotes, hasLiveRemote, idx>>

QE_Checkout ==
    /\ pc = "qe_checkout"
    /\ IF dryRun
       THEN /\ pc' = "qe_pick"
            /\ UNCHANGED <<calls, failures, head, outcome, exitCode>>
       ELSE \E ok \in Outcomes :
               /\ Issue(<<Checkout("origin/release", ok)>>)
               /\ IF ok
                  THEN /\ head' = HeadAfterCheckout("origin/release")
                       /\ pc' = "qe_pick"
                       /\ UNCHANGED <<outcome, exitCode>>
                  ELSE Return("error") /\ UNCHANGED head
    /\ idx' = 1
    /\ UNCHANGED <<envVars, flowVars, dirty, menuVars, runVars,
                   runCommits, runRemotes, hasLiveRemote, originalBranch>>

\* the cherry-pick loop with a catch that reports the failure and does not
\* throw it again
QE_CherryPickNoRethrow ==
    /\ pc = "qe_pick"
    /\ ~dryRun
    /\ idx <= Len(runCommits)
    /\ \E ok \in Outcomes :
          Issue(<<CherryPick(OrderedCommits(runCommits)[idx], ok)>>)
    /\ idx' = idx + 1
    /\ UNCHANGED <<envVars, flowVars, head, dirty, menuVars, runVars, runCommits,
                   runRemotes, hasLiveRemote, originalBranch, pc, outcome,
                   exitCode>>

\* one iteration of the cherry-pick loop; the loop is not entered in a dry
\* run
QE_CherryPick ==
    /\ pc = "qe_pick"
    /\ ~dryRun
    /\ idx <= Len(runCommits)
    /\ \E ok \in Outcomes :
          /\ Issue(<<CherryPick(OrderedCommits(runCommits)[idx], ok)>>)
          /\ IF ok
             THEN /\ idx' = idx + 1
                  /\ UNCHANGED <<pc, outcome, exitCode>>
             ELSE Return("error") /\ UNCHANGED idx
    /\ UNCHANGED <<envVars, flowVars, head, dirty, menuVars,
                   runVars, runCommits, runRemotes, hasLiveRemote, originalBranch>>

\* "All commits cherry-picked"
QE_PickDone ==
    /\ pc = "qe_pick"
    /\ dryRun \/ idx > Len(runCommits)
    /\ pc' = "qe_push_origin"
    /\ UNCHANGED <<envVars, flowVars, head, dirty, menuVars,
                   runVars, execVars, calls, failures, outcome, exitCode>>

QE_PushOrigin ==
    /\ pc = "qe_push_origin"
    /\ IF dryRun
       THEN /\ pc' = "qe_push_live"
            /\ UNCHANGED <<calls, failures, outcome, exitCode>>
       ELSE \E ok \in Outcomes :
               /\ Issue(<<Push("origin", "HEAD", "release", ok)>>)
               /\ IF ok THEN pc' = "qe_push_live" /\ UNCHANGED <<outcome, exitCode>>
                        ELSE Return("error")
    /\ UNCHANGED <<envVars, flowVars, head, dirty, menuVars,
                   runVars, execVars>>

\* the push to live with the branch restored whether or not it failed
QE_PushLiveThenRestore ==
    /\ pc = "qe_push_live"
    /\ IF hasLiveRemote /\ ~dryRun
       THEN \E ok \in Outcomes :
               Issue(<<Push("live", "origin/release", "release", ok)>>)
       ELSE UNCHANGED <<calls, failures>>
    /\ pc' = "qe_restore"
    /\ UNCHANGED <<envVars, flowVars, head, dirty, menuVars, runVars, execVars,
                   outcome, exitCode>>

QE_PushLive ==
    /\ pc = "qe_push_live"
    /\ IF hasLiveRemote /\ ~dryRun
       THEN \E ok \in Outcomes :
               /\ Issue(<<Push("live", "origin/release", "release", ok)>>)
               /\ IF ok THEN pc' = "qe_restore" /\ UNCHANGED <<outcome, exitCode>>
                        ELSE Return("error")
       ELSE /\ pc' = "qe_restore"
            /\ UNCHANGED <<calls, failures, outcome, exitCode>>
    /\ UNCHANGED <<envVars, flowVars, head, dirty, menuVars,
                   runVars, execVars>>

\* "Restore branch", then the success banner
QE_Restore ==
    /\ pc = "qe_restore"
    /\ IF originalBranch # "" /\ ~dryRun
       THEN \E ok \in Outcomes :
               /\ Issue(<<Checkout(originalBranch, ok)>>)
               /\ IF ok
                  THEN /\ head' = HeadAfterCheckout(originalBranch)
                       /\ Return("success")
                  ELSE Return("error") /\ UNCHANGED head
       ELSE /\ Return("success")
            /\ UNCHANGED <<calls, failures, head>>
    /\ UNCHANGED <<envVars, flowVars, dirty, menuVars, runVars,
                   execVars>>

(***************************************************************************)
(* runInteractiveMode: the menu loop.  The getCurrentBranch() of lines 979 *)
(* and 1055, whose result is only printed, is not modelled.                *)
(***************************************************************************)
IM_Fetch ==
    /\ pc = "im_fetch"
    /\ \E ok \in Outcomes : Issue(<<Fetch(ok)>>)
    /\ pc' = "im_menu"
    /\ UNCHANGED <<envVars, flowVars, head, dirty, menuVars,
                   runVars, execVars, outcome, exitCode>>

\* switchBranchMenu: the branches are listed, the operator cancels or picks
\* one of them, which is checked out; a failed checkout is reported
IM_SwitchBranch ==
    /\ pc = "im_menu"
    /\ \E ok \in Outcomes :
        LET branches == getBranches(ok) IN
        \/ /\ IssueUnlogged(<<Query("branch", ok)>>)
           /\ UNCHANGED head
        \/ \E i \in 1..Len(branches), ok2 \in OutcomesAfter(IF ok THEN 0 ELSE 1) :
              /\ IssueUnlogged(<<Query("branch", ok), Checkout(branches[i], ok2)>>)
              /\ head' = IF ok2 THEN HeadAfterCheckout(branches[i]) ELSE head
    /\ UNCHANGED <<envVars, pc, flowVars, dirty, menuVars, runVars,
                   execVars, outcome, exitCode>>

\* selectCommitsMenu(), the operator answering input to the list commits
selectCommitsMenu(commits, input) ==
    IF Len(commits) = 0 THEN <<>>
    ELSE IF input = <<"0">> \/ input = <<>> THEN <<>>
    ELSE MapIndices(parseSelection(input, Len(commits)), commits)

\* case '2' of the interactive menu, the operator typing answer to the list
\* of the n commits of the current branch
MenuSelect(answer, n, ok, ok2) ==
    /\ pc = "im_menu"
    /\ IssueUnlogged(<<Query("rev-parse", ok), Query("log", ok2)>>)
    /\ selectedCommits' =
          selectCommitsMenu(getCommitsFromBranch(n, LogCount, ok2), Prompt(answer))
    /\ UNCHANGED selectIdle

IM_SelectCommits ==
    /\ pc = "im_menu"
    /\ \E ok \in Outcomes :
       \E ok2 \in OutcomesAfter(IF ok THEN 0 ELSE 1), n \in {0, MaxCommits},
          answer \in SelectionInputs : MenuSelect(answer, n, ok, ok2)
    /\ UNCHANGED <<typedInput, listLength>>

\* selectRemotesMenu(), the operator answering input to the list remotes
selectRemotesMenu(remotes, input) ==
    IF Len(remotes) = 0 THEN <<>>
    ELSE IF input = <<"0">> \/ input = <<>> THEN <<>>
    ELSE MapIndices(parseSelection(input, Len(remotes)), remotes)

IM_SelectRemotes ==
    /\ pc = "im_menu"
    /\ \E ok \in Outcomes, answer \in SelectionInputs :
           /\ IssueUnlogged(<<Query("remote", ok)>>)
           /\ selectedRemotes' = selectRemotesMenu(getRemotes(ok), Prompt(answer))
    /\ UNCHANGED <<envVars, pc, flowVars, head, dirty, allCommits,
                   selectedCommits, targetBranch, runVars, execVars, outcome,
                   exitCode>>

\* a menu that returns what was typed, whatever it is
setTargetBranchMenuAsTyped(current, input) == input

\* setTargetBranchMenu(current), the operator answering input
setTargetBranchMenu(current, input) == IF input = "" THEN current ELSE input

IM_SetTargetBranch ==
    /\ pc = "im_menu"
    /\ IssueUnlogged(<<>>)
    /\ \E answer \in TargetInputs :
          targetBranch' = setTargetBranchMenu(targetBranch, BranchName(Prompt(answer)))
    /\ UNCHANGED <<envVars, pc, flowVars, head, dirty, allCommits,
                   selectedCommits, selectedRemotes, runVars, execVars, outcome,
                   exitCode>>

IM_Reset ==
    /\ pc = "im_menu"
    /\ IssueUnlogged(<<>>)
    /\ selectedCommits' = <<>>
    /\ selectedRemotes' = <<>>
    /\ targetBranch' = "release"
    /\ UNCHANGED <<envVars, pc, flowVars, head, dirty, allCommits,
                   runVars, execVars, outcome, exitCode>>

\* choice 6 with no commit or no remote selected, choice 8 with no commit
\* selected, or a choice the menu does not know
IM_Refused ==
    /\ pc = "im_menu"
    /\ IssueUnlogged(<<>>)
    /\ \E choice \in {"6", "8", "x"} :
          /\ choice = "6" => (Len(selectedCommits) = 0 \/ Len(selectedRemotes) = 0)
          /\ choice = "8" => Len(selectedCommits) = 0
    /\ UNCHANGED <<envVars, pc, flowVars, head, dirty, menuVars,
                   runVars, execVars, outcome, exitCode>>

\* choice 8 with a selection: the safety check runs and shows its report
IM_CheckSafety ==
    /\ pc = "im_menu"
    /\ Len(selectedCommits) # 0
    /\ SafetyReport(Len(selectedCommits))
    /\ pc' = "im_check"
    /\ UNCHANGED <<args, remoteNames, parseVars, utilVars, syncPlan, reportVars, confirmAnswers,
                   flowVars, head,
                   dirty, menuVars, calls, runVars, execVars, outcome, exitCode>>

\* the safety check returns to the menu
IM_CheckReturn ==
    /\ pc = "im_check"
    /\ SafetyReturn
    /\ pc' = "im_menu"
    /\ UNCHANGED <<args, remoteNames, parseVars, utilVars, syncPlan, reportVars, confirmAnswers,
                   flowVars, head,
                   dirty, menuVars, calls, failures, runVars, execVars, outcome,
                   exitCode>>

\* choice 6: a release run starts
IM_Execute ==
    /\ pc = "im_menu"
    /\ calls' = <<>>
    /\ UNCHANGED failures
    /\ Len(selectedCommits) # 0
    /\ Len(selectedRemotes) # 0
    /\ runCommits' = selectedCommits
    /\ runRemotes' = selectedRemotes
    /\ runHead' = head
    /\ execStart' = 0
    /\ pc' = "ie_confirm"
    /\ UNCHANGED <<envVars, flowVars, head, dirty, menuVars,
                   hasLiveRemote, originalBranch, idx, outcome, exitCode>>

IM_Exit ==
    /\ pc = "im_menu"
    /\ IssueUnlogged(<<>>)
    /\ Exit(0)
    /\ UNCHANGED <<envVars, flowVars, head, dirty, menuVars,
                   runVars, execVars, outcome>>

(***************************************************************************)
(* executeInteractiveCherryPick(commits, remotes, targetBranch)            *)
(***************************************************************************)
IE_Confirm ==
    /\ pc = "ie_confirm"
    /\ \E typed \in Typed :
          /\ confirmAnswers' = Asking(typed)
          /\ IF confirm(typed)
             THEN pc' = "ie_preflight" /\ UNCHANGED <<outcome, exitCode>>
             ELSE Return("cancelled")
    /\ UNCHANGED <<fixedVars, flowVars, head, dirty, menuVars,
                   runVars, execVars, calls, failures>>

IE_Preflight ==
    /\ pc = "ie_preflight"
    /\ confirmAnswers' = <<>>
    /\ \E ok \in Outcomes, tracked \in BOOLEAN :
          /\ dirty' = tracked
          /\ Issue(<<Query("status", ok)>>)
          /\ IF hasUncommittedChanges(ok, tracked)
             THEN Return("dirty")
             ELSE pc' = "ie_checkout" /\ UNCHANGED <<outcome, exitCode>>
    /\ UNCHANGED <<fixedVars, flowVars, head, menuVars, runVars,
                   execVars>>

IE_Checkout ==
    /\ pc = "ie_checkout"
    /\ \E ok \in Outcomes :
          LET ref == RemoteRef(runRemotes[1], targetBranch) IN
          /\ Issue(<<Checkout(ref, ok)>>)
          /\ IF ok
             THEN /\ head' = HeadAfterCheckout(ref)
                  /\ pc' = "ie_pick"
                  /\ UNCHANGED <<outcome, exitCode>>
             ELSE Return("error") /\ UNCHANGED head
    /\ idx' = 1
    /\ UNCHANGED <<envVars, flowVars, dirty, menuVars, runVars,
                   runCommits, runRemotes, hasLiveRemote, originalBranch>>

\* the cherry-pick loop going on to the next commit after a failure
IE_CherryPickNoStop ==
    /\ pc = "ie_pick"
    /\ idx <= Len(runCommits)
    /\ \E ok \in Outcomes :
          Issue(<<CherryPick(OrderedCommits(runCommits)[idx], ok)>>)
    /\ idx' = idx + 1
    /\ UNCHANGED <<envVars, flowVars, head, dirty, menuVars, runVars, runCommits,
                   runRemotes, hasLiveRemote, originalBranch, pc, outcome,
                   exitCode>>

\* one iteration of the cherry-pick loop
IE_CherryPick ==
    /\ pc = "ie_pick"
    /\ idx <= Len(runCommits)
    /\ \E ok \in Outcomes :
          /\ Issue(<<CherryPick(OrderedCommits(runCommits)[idx], ok)>>)
          /\ IF ok
             THEN /\ idx' = idx + 1
                  /\ UNCHANGED <<pc, outcome, exitCode>>
             ELSE Return("error") /\ UNCHANGED idx
    /\ UNCHANGED <<envVars, flowVars, head, dirty, menuVars,
                   runVars, runCommits, runRemotes, hasLiveRemote, originalBranch>>

\* the cherry-pick loop is over: "Pushing to remotes..."
IE_PickDone ==
    /\ pc = "ie_pick"
    /\ idx > Len(runCommits)
    /\ pc' = "ie_push"
    /\ idx' = 1
    /\ UNCHANGED <<envVars, flowVars, head, dirty, menuVars,
                   runVars, runCommits, runRemotes, hasLiveRemote, originalBranch,
                   calls, failures, outcome, exitCode>>

\* the push loop walking the remotes from the last selected to the first
IE_PushLastRemoteFirst ==
    /\ pc = "ie_push"
    /\ idx <= Len(runRemotes)
    /\ \E ok \in Outcomes :
          /\ Issue(<<Push(runRemotes[Len(runRemotes) + 1 - idx], "HEAD",
                          targetBranch, ok)>>)
          /\ IF ok
             THEN /\ idx' = idx + 1
                  /\ UNCHANGED <<pc, outcome, exitCode>>
             ELSE Return("error") /\ UNCHANGED idx
    /\ UNCHANGED <<envVars, flowVars, head, dirty, menuVars,
                   runVars, runCommits, runRemotes, hasLiveRemote, originalBranch>>

\* the push loop going on to the next remote after a failure
IE_PushEveryRemote ==
    /\ pc = "ie_push"
    /\ idx <= Len(runRemotes)
    /\ \E ok \in Outcomes :
          Issue(<<Push(runRemotes[idx], "HEAD", targetBranch, ok)>>)
    /\ idx' = idx + 1
    /\ UNCHANGED <<envVars, flowVars, head, dirty, menuVars, runVars, runCommits,
                   runRemotes, hasLiveRemote, originalBranch, pc, outcome,
                   exitCode>>

\* one iteration of the push loop
IE_Push ==
    /\ pc = "ie_push"
    /\ idx <= Len(runRemotes)
    /\ \E ok \in Outcomes :
          /\ Issue(<<Push(runRemotes[idx], "HEAD", targetBranch, ok)>>)
          /\ IF ok
             THEN /\ idx' = idx + 1
                  /\ UNCHANGED <<pc, outcome, exitCode>>
             ELSE Return("error") /\ UNCHANGED idx
    /\ UNCHANGED <<envVars, flowVars, head, dirty, menuVars,
                   runVars, runCommits, runRemotes, hasLiveRemote, originalBranch>>

\* the push loop is over: the success banner
IE_Success ==
    /\ pc = "ie_push"
    /\ idx > Len(runRemotes)
    /\ Return("success")
    /\ UNCHANGED <<envVars, flowVars, head, dirty, menuVars,
                   runVars, execVars, calls, failures>>

(***************************************************************************)
(* The developer utilities: revertLastCommits, goToCommit and the menu     *)
(* that calls them.                                                        *)
(***************************************************************************)
Revert(commit, ok) == GitCall("revert", "--no-edit", commit, "", "", ok)

Detach(commit, ok) == GitCall("checkout", "--detach", commit, "", "", ok)

Reset(how, commit, ok) == GitCall("reset", how, commit, "", "", ok)

CreateBranch(ok) == GitCall("branch", "safety", 0, "", "", ok)

\* pauseAfter: the utility was called from the utilities menu
pauseAfter == workflow = "utilities"

\* a utility returns: to the utilities menu, or to main, which returns
UtilReturn(result) ==
    /\ outcome' = result
    /\ IF pauseAfter
       THEN pc' = "um_menu" /\ UNCHANGED exitCode
       ELSE Exit(0)

\* an error thrown by execGit leaves the utility, its menus and main: the
\* promise of main() is rejected with no handler, and the process ends
Unhandled ==
    /\ outcome' = "unhandled"
    /\ Exit(1)

\* revertLastCommits(count, dryRun, pauseAfter) up to its list of commits
RevertLoad(count, sofar) ==
    IF ParseInt(count).nan \/ ParseInt(count).val < 1
    THEN /\ UtilReturn("invalid count")
         /\ calls' = sofar
         /\ UNCHANGED <<failures, runCommits, idx>>
    ELSE \E okBranch \in Outcomes, n \in 0..MaxCommits :
            \E okLog \in OutcomesAfter(IF okBranch THEN 0 ELSE 1) :
               /\ calls' = sofar \o <<Query("rev-parse", okBranch), Query("log", okLog)>>
               /\ failures' = failures + FailedCalls(<<Query("rev-parse", okBranch),
                                                       Query("log", okLog)>>)
               /\ runCommits' = getCommitsFromBranch(n, ParseInt(count).val, okLog)
               /\ idx' = 0
               /\ IF runCommits' = <<>>
                  THEN UtilReturn("no commits")
                  ELSE /\ pc' = "rv_confirm"
                       /\ outcome' = "none"
                       /\ UNCHANGED exitCode

\* main calls revertLastCommits(value, dryRun, false)
RV_Load ==
    /\ pc = "rv_load"
    /\ RevertLoad(GetFlagValue(RevertFlag), calls)
    /\ UNCHANGED <<toolVars, flowVars, head, dirty, confirmAnswers, utilVars>>

\* the confirmations of revertLastCommits and its dry run
RV_Confirm ==
    /\ pc = "rv_confirm"
    /\ \E ok \in Outcomes, tracked \in BOOLEAN, yesDirty, yes \in Confirmed :
          /\ Issue(<<Query("status", ok)>>)
          /\ dirty' = tracked
          /\ IF hasUncommittedChanges(ok, tracked) /\ ~yesDirty
             THEN UtilReturn("cancelled") /\ UNCHANGED idx
             ELSE IF ~yes
             THEN UtilReturn("cancelled") /\ UNCHANGED idx
             ELSE IF dryRun
             THEN UtilReturn("dry run") /\ UNCHANGED idx
             ELSE /\ pc' = "rv_revert"
                  /\ idx' = 1
                  /\ UNCHANGED <<outcome, exitCode>>
    /\ UNCHANGED <<toolVars, flowVars, head, runCommits, confirmAnswers, utilVars>>

\* a loop over the commits that goes on after a revert that failed
RV_RevertNoStop ==
    /\ pc = "rv_revert"
    /\ \E ok \in Outcomes :
          /\ Issue(<<Revert(runCommits[idx], ok)>>)
          /\ IF idx < Len(runCommits)
             THEN /\ idx' = idx + 1
                  /\ UNCHANGED <<pc, outcome, exitCode>>
             ELSE /\ UtilReturn(IF ok THEN "success" ELSE "error")
                  /\ UNCHANGED idx
    /\ UNCHANGED <<toolVars, flowVars, head, dirty, runCommits, confirmAnswers,
                   utilVars>>

\* one pass of the loop of revertLastCommits: git revert --no-edit
RV_Revert ==
    /\ pc = "rv_revert"
    /\ \E ok \in Outcomes :
          /\ Issue(<<Revert(runCommits[idx], ok)>>)
          /\ IF ok /\ idx < Len(runCommits)
             THEN /\ idx' = idx + 1
                  /\ UNCHANGED <<pc, outcome, exitCode>>
             ELSE /\ UtilReturn(IF ok THEN "success" ELSE "error")
                  /\ UNCHANGED idx
    /\ UNCHANGED <<toolVars, flowVars, head, dirty, runCommits, confirmAnswers,
                   utilVars>>

\* goToCommit(ref, mode, dryRun, pauseAfter) up to its confirmations:
\* resolveCommit, getCommitInfo and getCurrentBranch
GT_Resolve ==
    /\ pc = "gt_resolve"
    /\ \E okRef \in Outcomes, commit \in 1..MaxCommits :
          IF ~okRef
          THEN /\ Issue(<<Query("rev-parse --verify", FALSE)>>)
               /\ resolved' = 0
               /\ UtilReturn("unresolved")
          ELSE \E okInfo \in Outcomes :
                  IF ~okInfo
                  THEN /\ Issue(<<Query("rev-parse --verify", TRUE),
                                  Query("log", FALSE)>>)
                       /\ resolved' = commit
                       /\ Unhandled
                  ELSE \E okBranch \in Outcomes :
                          /\ Issue(<<Query("rev-parse --verify", TRUE),
                                     Query("log", TRUE), Query("log", TRUE),
                                     Query("rev-parse", okBranch)>>)
                          /\ resolved' = commit
                          /\ pc' = IF mode = "detach" THEN "gt_detach"
                                   ELSE "gt_dirty"
                          /\ UNCHANGED <<outcome, exitCode>>
    /\ UNCHANGED <<toolVars, flowVars, head, dirty, runCommits, idx,
                   confirmAnswers, mode>>

\* mode === 'detach': the confirmation, the dry run and git checkout --detach
GT_Detach ==
    /\ pc = "gt_detach"
    /\ \E yes \in Confirmed :
          /\ IF ~yes
             THEN /\ UtilReturn("cancelled")
                  /\ UNCHANGED <<calls, failures, head>>
             ELSE IF dryRun
             THEN /\ UtilReturn("dry run")
                  /\ UNCHANGED <<calls, failures, head>>
             ELSE \E ok \in Outcomes :
                     /\ Issue(<<Detach(resolved, ok)>>)
                     /\ IF ok
                        THEN head' = "HEAD" /\ UtilReturn("success")
                        ELSE UNCHANGED head /\ Unhandled
    /\ UNCHANGED <<toolVars, flowVars, dirty, runCommits, idx, confirmAnswers,
                   utilVars>>

\* a reset mode: the check of the work tree and, for --hard over changes,
\* its confirmation
GT_Dirty ==
    /\ pc = "gt_dirty"
    /\ \E ok \in Outcomes, tracked \in BOOLEAN, yes \in Confirmed :
          /\ Issue(<<Query("status", ok)>>)
          /\ dirty' = tracked
          /\ IF hasUncommittedChanges(ok, tracked) /\ mode = "hard" /\ ~yes
             THEN UtilReturn("cancelled")
             ELSE pc' = "gt_backup" /\ UNCHANGED <<outcome, exitCode>>
    /\ UNCHANGED <<toolVars, flowVars, head, runCommits, idx, confirmAnswers,
                   utilVars>>

\* 'Create safety branch before reset?': git branch, whose failure is a
\* warning
GT_Backup ==
    /\ pc = "gt_backup"
    /\ \E yes \in Confirmed :
          IF yes /\ ~dryRun
          THEN \E ok \in Outcomes : Issue(<<CreateBranch(ok)>>)
          ELSE UNCHANGED <<calls, failures>>
    /\ pc' = "gt_reset"
    /\ UNCHANGED <<toolVars, flowVars, head, dirty, runCommits, idx, utilVars,
                   confirmAnswers, outcome, exitCode>>

\* the confirmation of the reset, the dry run and git reset --<mode>
GT_Reset ==
    /\ pc = "gt_reset"
    /\ \E yes \in Confirmed :
          /\ IF ~yes
             THEN /\ UtilReturn("cancelled")
                  /\ UNCHANGED <<calls, failures>>
             ELSE IF dryRun
             THEN /\ UtilReturn("dry run")
                  /\ UNCHANGED <<calls, failures>>
             ELSE \E ok \in Outcomes :
                     /\ Issue(<<Reset(mode, resolved, ok)>>)
                     /\ IF ok THEN UtilReturn("success") ELSE Unhandled
    /\ UNCHANGED <<toolVars, flowVars, head, dirty, runCommits, idx, utilVars,
                   confirmAnswers>>

\* what is typed at the prompts of the utilities menu
UtilityChoices == {"1", "2", "0", "x"}

CountInputs == {<<>>, <<"0">>, <<"1">>, <<"2">>, <<"x">>}

RefInputs == {<<>>, <<"0">>, <<"1">>, <<"H", "E", "A", "D", "~", "2">>}

ActionChoices == {"1", "2", "3", "4", "0"}

\* the mode goToCommitMenu passes for a choice of its action menu
ModeOf(choice) ==
    CASE choice = "1" -> "detach"
      [] choice = "2" -> "soft"
      [] choice = "3" -> "mixed"
      [] choice = "4" -> "hard"

\* revertCommitsMenu(): the count is asked for and revertLastCommits called
revertCommitsMenu ==
    /\ pc = "um_revert"
    /\ \E typed \in CountInputs :
          IF Prompt(typed) \in {<<>>, <<"0">>}
          THEN /\ pc' = "um_menu"
               /\ UNCHANGED <<calls, failures, runCommits, idx, outcome, exitCode>>
          ELSE RevertLoad(Prompt(typed), <<>>)
    /\ UNCHANGED <<toolVars, flowVars, head, dirty, confirmAnswers, utilVars>>

\* goToCommitMenu(): the commits are listed, the ref and the action are
\* asked for and goToCommit called
goToCommitMenu ==
    /\ pc = "um_goto"
    /\ \E okBranch \in Outcomes :
          \E okLog \in OutcomesAfter(IF okBranch THEN 0 ELSE 1) :
             /\ calls' = <<Query("rev-parse", okBranch), Query("log", okLog)>>
             /\ failures' = failures + FailedCalls(calls')
             /\ \E none \in {getCommitsFromBranch(n, LogCount, okLog) = <<>> :
                                  n \in 0..MaxCommits},
                   back \in {(Prompt(typed) \in {<<>>, <<"0">>}) : typed \in RefInputs},
                   choice \in ActionChoices :
                   IF none \/ back \/ choice = "0"
                   THEN pc' = "um_menu" /\ mode' = "detach"
                   ELSE pc' = "gt_resolve" /\ mode' = ModeOf(choice)
    /\ UNCHANGED <<toolVars, flowVars, head, dirty, confirmAnswers, resolved,
                   runCommits, idx, outcome, exitCode>>

\* one pass of the loop of showUtilitiesMenu(): the screen is cleared, and
\* the utility the choice calls starts with fresh locals
UM_Choose ==
    /\ pc = "um_menu"
    /\ \E choice \in UtilityChoices :
          \/ /\ choice \in {"1", "2"}
             /\ pc' = IF choice = "1" THEN "um_revert" ELSE "um_goto"
             /\ calls' = <<>>
             /\ runCommits' = <<>>
             /\ idx' = 0
             /\ outcome' = "none"
             /\ mode' = "detach"
             /\ resolved' = 0
             /\ UNCHANGED <<failures, exitCode>>
          \/ /\ choice = "0"
             /\ Exit(0)
             /\ UNCHANGED <<calls, failures, runCommits, idx, outcome, utilVars>>
          \/ /\ choice = "x"
             /\ UNCHANGED <<pc, calls, failures, runCommits, idx, outcome,
                            exitCode, utilVars>>
    /\ UNCHANGED <<toolVars, flowVars, head, dirty, confirmAnswers>>

(***************************************************************************)
(* The specification.                                                      *)
(***************************************************************************)
Next ==
    \/ Main
    \/ showMainMenu
    \/ QR_Fetch
    \/ QR_CheckoutDevelop
    \/ QR_Pull
    \/ QR_Load
    \/ QR_SelectCommits
    \/ QR_Reset
    \/ QR_Refused
    \/ QR_CheckSafety
    \/ QR_CheckReturn
    \/ QR_Execute
    \/ QR_Exit
    \/ QE_Confirm
    \/ QE_Preflight
    \/ QE_Checkout
    \/ QE_CherryPick
    \/ QE_PickDone
    \/ QE_PushOrigin
    \/ QE_PushLive
    \/ QE_Restore
    \/ IM_Fetch
    \/ IM_SwitchBranch
    \/ IM_SelectCommits
    \/ IM_SelectRemotes
    \/ IM_SetTargetBranch
    \/ IM_Reset
    \/ IM_Refused
    \/ IM_CheckSafety
    \/ IM_CheckReturn
    \/ IM_Execute
    \/ IM_Exit
    \/ IE_Confirm
    \/ IE_Preflight
    \/ IE_Checkout
    \/ IE_CherryPick
    \/ IE_PickDone
    \/ IE_Push
    \/ IE_Success
    \/ RV_Load
    \/ RV_Confirm
    \/ RV_Revert
    \/ GT_Resolve
    \/ GT_Detach
    \/ GT_Dirty
    \/ GT_Backup
    \/ GT_Reset
    \/ UM_Choose
    \/ revertCommitsMenu
    \/ goToCommitMenu

Spec == Init /\ [][Next]_vars

(***************************************************************************)
(* parseSelection on its own: the operator types a selection, character by *)
(* character, at the prompt of a list of max entries, and parseSelection   *)
(* is applied to what was typed.                                           *)
(***************************************************************************)
\* the longest selection typed character by character
MaxInputLen == 4

\* the longest list a typed selection refers to
MaxListLen == 3

\* the characters the operator types
Keys == {"0", "1", "2", "3", "-", ",", " ", "a"}

\* selections entered as a whole, with the length of their list: the
\* example of the comment of line 265, a reversed range, ranges that overlap
\* and a selection out of order
SelectionExamples ==
    { [input |-> <<"1", "-", "5", ",", " ", "8", ",", " ", "1", "0", "-", "1", "2">>,
       max |-> 12],
      [input |-> <<"5", "-", "2">>, max |-> 10],
      [input |-> <<"2", "-", "3", ",", "1", "-", "2">>, max |-> 3],
      [input |-> <<"3", ",", " ", "1", ",", "3", ",", "2">>, max |-> 3] }

\* checkMergeSafety has not been called
SafetyIdle ==
    /\ checkedCommits = <<>>
    /\ targetFiles = <<>>
    /\ checkStatus = <<"pending", "pending", "pending", "pending">>
    /\ checkFailed = <<FALSE, FALSE, FALSE, FALSE>>
    /\ conflictFiles = <<>>
    /\ nameIssues = <<>>
    /\ largeFiles = <<>>
    /\ binaryFiles = <<>>
    /\ hasIssues = FALSE
    /\ confirmAnswers = <<>>
    /\ checkCalls = <<>>

\* the release program has not been started
ReleaseIdle ==
    /\ workflow = "none"
    /\ args = NoArguments
    /\ skipAllConfirm = FALSE
    /\ dryRun = FALSE
    /\ head = "feature"
    /\ dirty = FALSE
    /\ remoteNames = <<"origin">>
    /\ allCommits = <<>>
    /\ selectedCommits = <<>>
    /\ selectedRemotes = <<>>
    /\ mode = "detach"
    /\ resolved = 0
    /\ syncPlan = NoPlan
    /\ targetBranch = "release"
    /\ calls = <<>>
    /\ runHead = "feature"
    /\ execStart = 0
    /\ runCommits = <<>>
    /\ runRemotes = <<>>
    /\ hasLiveRemote = FALSE
    /\ originalBranch = ""
    /\ idx = 0
    /\ outcome = "none"
    /\ exitCode = -1

ParseInit ==
    /\ ReleaseIdle
    /\ SafetyIdle
    /\ pc = "prompt"
    /\ failures = 0
    /\ \/ typedInput = <<>> /\ listLength \in 1..MaxListLen
       \/ \E e \in SelectionExamples : typedInput = e.input /\ listLength = e.max
    /\ resultIndices = <<>>
    /\ parsed = FALSE

\* the operator types one more character
TypeKey ==
    /\ ~parsed
    /\ Len(typedInput) < MaxInputLen
    /\ \E c \in Keys : typedInput' = Append(typedInput, c)
    /\ UNCHANGED <<releaseVars, utilVars, syncPlan, safetyVars, confirmAnswers, listLength,
                   resultIndices, parsed>>

\* the operator presses Enter: const indices = parseSelection(input, max)
ParseTyped ==
    /\ ~parsed
    /\ resultIndices' = parseSelection(typedInput, listLength)
    /\ parsed' = TRUE
    /\ UNCHANGED <<releaseVars, utilVars, syncPlan, safetyVars, confirmAnswers, typedInput,
                   listLength>>

ParseNext == TypeKey \/ ParseTyped

ParseSpec == ParseInit /\ [][ParseNext]_vars

(***************************************************************************)
(* hasInvalidNames(files)                                                  *)
(***************************************************************************)
\* /\s{2,}/
MultipleSpaces(part) ==
    \E k \in 1..(Len(part) - 1) : IsSpace(part[k]) /\ IsSpace(part[k + 1])

\* /^\s|\s$/
LeadingTrailingSpace(part) ==
    part # <<>> /\ (IsSpace(part[1]) \/ IsSpace(part[Len(part)]))

\* /[<>:"|?*\\]/
InvalidCharacters(part) ==
    \E k \in 1..Len(part) : part[k] \in {"<", ">", ":", "\"", "|", "?", "*", "\\"}

\* /\.$/
TrailingPeriod(part) == part # <<>> /\ part[Len(part)] = "."

\* /^(CON|PRN|AUX|NUL|COM[1-9]|LPT[1-9])$/i
ReservedName(part) ==
    LET u == ToUpperCase(part) IN
    \/ u \in {<<"C", "O", "N">>, <<"P", "R", "N">>, <<"A", "U", "X">>,
              <<"N", "U", "L">>}
    \/ /\ Len(u) = 4
       /\ SubSeq(u, 1, 3) \in {<<"C", "O", "M">>, <<"L", "P", "T">>}
       /\ IsDigit(u[4]) /\ u[4] # "0"

\* the longest name and the longest path that are not reported
MaxNameLength == 255

MaxPathLength == 260

NameIssue(file, issue, part) == [file |-> file, issue |-> issue, part |-> part]

\* the issues pushed for one segment of a path, in the order of the patterns
PartIssues(file, part) ==
    (IF MultipleSpaces(part)
        THEN <<NameIssue(file, "multiple consecutive spaces", part)>> ELSE <<>>)
    \o (IF LeadingTrailingSpace(part)
        THEN <<NameIssue(file, "leading/trailing spaces", part)>> ELSE <<>>)
    \o (IF InvalidCharacters(part)
        THEN <<NameIssue(file, "invalid characters", part)>> ELSE <<>>)
    \o (IF TrailingPeriod(part)
        THEN <<NameIssue(file, "trailing period", part)>> ELSE <<>>)
    \o (IF ReservedName(part)
        THEN <<NameIssue(file, "reserved Windows name", part)>> ELSE <<>>)
    \o (IF Len(part) > MaxNameLength
        THEN <<NameIssue(file, "name exceeds 255 characters", part)>> ELSE <<>>)

RECURSIVE PartsIssues(_, _)
PartsIssues(file, parts) ==
    IF parts = <<>> THEN <<>>
    ELSE PartIssues(file, Head(parts)) \o PartsIssues(file, Tail(parts))

\* the issues pushed for one file
FileIssues(file) ==
    PartsIssues(file, Split(file, "/"))
    \o (IF Len(file) > MaxPathLength
        THEN <<NameIssue(file, "total path exceeds 260 characters", file)>> ELSE <<>>)

RECURSIVE hasInvalidNames(_)
hasInvalidNames(files) ==
    IF files = <<>> THEN <<>>
    ELSE FileIssues(Head(files)) \o hasInvalidNames(Tail(files))

(***************************************************************************)
(* The output of git as checkMergeSafety reads it.                         *)
(***************************************************************************)
\* the lines, each ended by a newline, as one string
RECURSIVE JoinLines(_)
JoinLines(lines) ==
    IF lines = <<>> THEN <<>>
    ELSE Head(lines) \o <<"\n">> \o JoinLines(Tail(lines))

\* Array.prototype.filter(l => l.length > 0)
RECURSIVE NonEmpty(_)
NonEmpty(lines) ==
    IF lines = <<>> THEN <<>>
    ELSE (IF Head(lines) # <<>> THEN <<Head(lines)>> ELSE <<>>)
         \o NonEmpty(Tail(lines))

\* execGit(...).split('\n').filter(l => l.length > 0): execGit returns the
\* output of the command trimmed
OutputLines(output) == NonEmpty(Split(Trim(output), "\n"))

\* String.prototype.startsWith
StartsWith(str, prefix) ==
    Len(prefix) <= Len(str) /\ SubSeq(str, 1, Len(prefix)) = prefix

(***************************************************************************)
(* The commits checkMergeSafety is called with: what `git diff-tree        *)
(* --numstat` prints for each, as added, removed and path, in the order    *)
(* git prints the paths.                                                   *)
(***************************************************************************)
NumStatLine(added, removed, path) == [added |-> added, removed |-> removed, path |-> path]

\* CON.txt and "file .txt " with a trailing space, a few lines each
NamedCommit ==
    << NumStatLine(<<"5">>, <<"2">>, <<"C", "O", "N", ".", "t", "x", "t">>),
       NumStatLine(<<"5">>, <<"2">>,
                   <<"f", "i", "l", "e", " ", ".", "t", "x", "t", " ">>) >>

\* a.txt with 10001 lines added
LargeCommit ==
    << NumStatLine(<<"1", "0", "0", "0", "1">>, <<"0">>, <<"a", ".", "t", "x", "t">>) >>

\* a binary file
BinaryCommit ==
    << NumStatLine(<<"-">>, <<"-">>, <<"b", ".", "b", "i", "n">>) >>

\* a.txt with 10000 lines added
PlainCommit ==
    << NumStatLine(<<"1", "0", "0", "0", "0">>, <<"1">>, <<"a", ".", "t", "x", "t">>) >>

\* a file in a directory, the file named as a device in lower case
DeviceCommit ==
    << NumStatLine(<<"1">>, <<"1">>, <<"d", "/", "c", "o", "n">>) >>

CommitPool == <<NamedCommit, LargeCommit, BinaryCommit, PlainCommit, DeviceCommit>>

\* the lists of up to MaxCommits distinct commits of the pool
CommitLists ==
    { [k \in 1..Len(order) |-> CommitPool[order[k]]] :
        order \in { o \in UNION {[1..n -> 1..Len(CommitPool)] : n \in 0..MaxCommits} :
                      \A a, b \in 1..Len(o) : a # b => o[a] # o[b] } }

\* what the diff of the current branch against the target can list
TargetFileSets == { <<>>, << <<"a", ".", "t", "x", "t">> >> }

\* the output of `git diff-tree --no-commit-id --name-only -r <commit>`
DiffTreeNames(commit) ==
    JoinLines([k \in 1..Len(commit) |-> commit[k].path])

\* the output of `git diff-tree --no-commit-id -r --numstat <commit>`
DiffTreeNumStat(commit) ==
    JoinLines([k \in 1..Len(commit) |->
                  commit[k].added \o <<"\t">> \o commit[k].removed \o <<"\t">>
                      \o commit[k].path])

\* the lines parseInt(added) must exceed for a file to be listed as large
LargeFileLines == 10000

\* seq with every element of more added as to a Set
RECURSIVE SetAddAll(_, _)
SetAddAll(seq, more) ==
    IF more = <<>> THEN seq
    ELSE SetAddAll(SetAdd(seq, Head(more)), Tail(more))

\* check 1: allFiles, a Set filled commit by commit
RECURSIVE AllFilesSet(_)
AllFilesSet(list) ==
    IF list = <<>> THEN <<>>
    ELSE SetAddAll(AllFilesSet(SubSeq(list, 1, Len(list) - 1)),
                   OutputLines(DiffTreeNames(list[Len(list)])))

\* check 2: allFiles, an array filled commit by commit
RECURSIVE AllFilesArray(_)
AllFilesArray(list) ==
    IF list = <<>> THEN <<>>
    ELSE OutputLines(DiffTreeNames(Head(list))) \o AllFilesArray(Tail(list))

\* checks 3 and 4: the numstat lines of all commits
RECURSIVE AllNumStatLines(_)
AllNumStatLines(list) ==
    IF list = <<>> THEN <<>>
    ELSE OutputLines(DiffTreeNumStat(Head(list))) \o AllNumStatLines(Tail(list))

\* [...allFiles].filter(f => targetFileSet.has(f))
RECURSIVE InTargetSet(_, _)
InTargetSet(files, target) ==
    IF files = <<>> THEN <<>>
    ELSE (IF \E k \in 1..Len(target) : target[k] = Head(files)
          THEN <<Head(files)>> ELSE <<>>)
         \o InTargetSet(Tail(files), target)

\* check 1: the files of the commits that the target also changed
ConflictFilesOf(list, target) ==
    InTargetSet(AllFilesSet(list), OutputLines(JoinLines(target)))

\* check 3 listing a file from 10000 added lines on
LargeFileFromThreshold(line) ==
    LET added == Split(line, "\t")[1] IN
    IF added # <<"-">> /\ ~ParseInt(added).nan /\ ParseInt(added).val >= LargeFileLines
    THEN <<[file |-> Split(line, "\t")[3], lines |-> ParseInt(added).val]>>
    ELSE <<>>

\* check 3: what a numstat line adds to largeFiles
LargeFileOf(line) ==
    LET added == Split(line, "\t")[1] IN
    IF added # <<"-">> /\ ~ParseInt(added).nan /\ ParseInt(added).val > LargeFileLines
    THEN <<[file |-> Split(line, "\t")[3], lines |-> ParseInt(added).val]>>
    ELSE <<>>

RECURSIVE LargeFilesIn(_)
LargeFilesIn(lines) ==
    IF lines = <<>> THEN <<>>
    ELSE LargeFileOf(Head(lines)) \o LargeFilesIn(Tail(lines))

LargeFilesOf(list) == LargeFilesIn(AllNumStatLines(list))

\* check 4: what a numstat line adds to binaryFiles
BinaryFileOf(line) ==
    IF StartsWith(line, <<"-", "\t", "-", "\t">>)
    THEN <<Split(line, "\t")[3]>> ELSE <<>>

RECURSIVE BinaryFilesIn(_)
BinaryFilesIn(lines) ==
    IF lines = <<>> THEN <<>>
    ELSE BinaryFileOf(Head(lines)) \o BinaryFilesIn(Tail(lines))

BinaryFilesOf(list) == BinaryFilesIn(AllNumStatLines(list))

(***************************************************************************)
(* checkMergeSafety(commits, targetRemote, targetBranch) on its own, as    *)
(* the menus call it.  Each of the four checks is one step; a check ends   *)
(* as "passed" (its success line was printed), "issues" (its findings      *)
(* were listed) or "unknown" (its 'Could not check' warning was printed).  *)
(***************************************************************************)
\* what the steps of checkMergeSafety leave alone
idleVars == <<workflow, args, skipAllConfirm, dryRun, head, dirty, remoteNames,
              allCommits, selectedCommits, selectedRemotes, targetBranch, calls,
              runHead, execStart, runCommits, runRemotes, hasLiveRemote,
              originalBranch, idx, exitCode, parseVars, confirmAnswers, utilVars,
              syncPlan>>

SafetyInit ==
    /\ ReleaseIdle
    /\ pc = "check_conflicts"
    /\ failures = 0
    /\ typedInput = <<>>
    /\ listLength = 0
    /\ resultIndices = <<>>
    /\ parsed = FALSE
    /\ checkedCommits \in CommitLists
    /\ targetFiles \in TargetFileSets
    /\ checkStatus = <<"pending", "pending", "pending", "pending">>
    /\ checkFailed = <<FALSE, FALSE, FALSE, FALSE>>
    /\ conflictFiles = <<>>
    /\ nameIssues = <<>>
    /\ largeFiles = <<>>
    /\ binaryFiles = <<>>
    /\ hasIssues = FALSE
    /\ confirmAnswers = <<>>
    /\ checkCalls = <<>>

\* the check printed its result; queryFailed tells whether one of its git
\* queries failed, queries are the queries it issued
Reported(check, status, queryFailed, queries) ==
    /\ checkCalls' = checkCalls \o queries
    /\ checkStatus' = [checkStatus EXCEPT ![check] = status]
    /\ checkFailed' = [checkFailed EXCEPT ![check] = queryFailed]
    /\ failures' = failures + (IF queryFailed THEN 1 ELSE 0)

\* how a check that found the list found ends
StatusOf(found) == IF found # <<>> THEN "issues" ELSE "passed"

\* 'No commits selected to check!'
CheckNothing ==
    /\ pc = "check_conflicts"
    /\ checkedCommits = <<>>
    /\ pc' = "check_done"
    /\ UNCHANGED <<idleVars, failures, outcome, safetyVars>>

\* [1/4]: a failing diff-tree leaves the check by the outer catch; the
\* failure of the diff against the target, which follows from a failed
\* getCurrentBranch(), is swallowed by the inner catch
CheckConflicts ==
    /\ pc = "check_conflicts"
    /\ checkedCommits # <<>>
    /\ \E treeOk \in Outcomes :
          IF ~treeOk
          THEN /\ Reported(1, "unknown", TRUE, DiffTreeFailed)
               /\ UNCHANGED <<conflictFiles, hasIssues>>
          ELSE \E branchOk \in Outcomes :
               \E diffOk \in (IF branchOk THEN Outcomes ELSE {FALSE}) :
                  LET found == IF diffOk
                               THEN ConflictFilesOf(checkedCommits, targetFiles)
                               ELSE <<>>
                  IN  /\ conflictFiles' = found
                      /\ hasIssues' = (hasIssues \/ found # <<>>)
                      /\ Reported(1, StatusOf(found), ~diffOk,
                                  DiffTrees(Len(checkedCommits))
                                      \o <<Query("rev-parse", branchOk),
                                            Query("diff", diffOk)>>)
    /\ pc' = "check_names"
    /\ UNCHANGED <<idleVars, outcome, checkedCommits, targetFiles, nameIssues,
                   largeFiles, binaryFiles>>

\* [2/4]
CheckNames ==
    /\ pc = "check_names"
    /\ \E treeOk \in Outcomes :
          IF ~treeOk
          THEN /\ Reported(2, "unknown", TRUE, DiffTreeFailed)
               /\ UNCHANGED <<nameIssues, hasIssues>>
          ELSE LET found == hasInvalidNames(AllFilesArray(checkedCommits))
               IN  /\ nameIssues' = found
                   /\ hasIssues' = (hasIssues \/ found # <<>>)
                   /\ Reported(2, StatusOf(found), FALSE,
                                DiffTrees(Len(checkedCommits)))
    /\ pc' = "check_large"
    /\ UNCHANGED <<idleVars, outcome, checkedCommits, targetFiles, conflictFiles,
                   largeFiles, binaryFiles>>

\* [3/4]
CheckLargeFiles ==
    /\ pc = "check_large"
    /\ \E treeOk \in Outcomes :
          IF ~treeOk
          THEN /\ Reported(3, "unknown", TRUE, DiffTreeFailed)
               /\ UNCHANGED <<largeFiles, hasIssues>>
          ELSE LET found == LargeFilesOf(checkedCommits)
               IN  /\ largeFiles' = found
                   /\ hasIssues' = (hasIssues \/ found # <<>>)
                   /\ Reported(3, StatusOf(found), FALSE,
                                DiffTrees(Len(checkedCommits)))
    /\ pc' = "check_binary"
    /\ UNCHANGED <<idleVars, outcome, checkedCommits, targetFiles, conflictFiles,
                   nameIssues, binaryFiles>>

\* [4/4] with hasIssues set where a binary file is listed
CheckBinaryFilesAsIssue ==
    /\ pc = "check_binary"
    /\ \E treeOk \in Outcomes :
          IF ~treeOk
          THEN /\ Reported(4, "unknown", TRUE, DiffTreeFailed)
               /\ UNCHANGED <<binaryFiles, hasIssues>>
          ELSE LET found == BinaryFilesOf(checkedCommits)
               IN  /\ binaryFiles' = found
                   /\ hasIssues' = (hasIssues \/ found # <<>>)
                   /\ Reported(4, StatusOf(found), FALSE,
                                DiffTrees(Len(checkedCommits)))
    /\ pc' = "check_summary"
    /\ UNCHANGED <<idleVars, outcome, checkedCommits, targetFiles, conflictFiles,
                   nameIssues, largeFiles>>

\* [4/4]
CheckBinaryFiles ==
    /\ pc = "check_binary"
    /\ \E treeOk \in Outcomes :
          IF ~treeOk
          THEN /\ Reported(4, "unknown", TRUE, DiffTreeFailed)
               /\ UNCHANGED binaryFiles
          ELSE LET found == BinaryFilesOf(checkedCommits)
               IN  /\ binaryFiles' = found
                   /\ Reported(4, StatusOf(found), FALSE,
                                DiffTrees(Len(checkedCommits)))
    /\ pc' = "check_summary"
    /\ UNCHANGED <<idleVars, outcome, checkedCommits, targetFiles, conflictFiles,
                   nameIssues, largeFiles, hasIssues>>

\* "Summary": the closing line
CheckSummary ==
    /\ pc = "check_summary"
    /\ outcome' = IF hasIssues THEN "issues detected" ELSE "all checks passed"
    /\ pc' = "check_done"
    /\ UNCHANGED <<idleVars, failures, safetyVars>>

SafetyNext ==
    \/ CheckNothing
    \/ CheckConflicts
    \/ CheckNames
    \/ CheckLargeFiles
    \/ CheckBinaryFiles
    \/ CheckSummary

SafetySpec == SafetyInit /\ [][SafetyNext]_vars

(***************************************************************************)
(* What the claims speak of.                                               *)
(***************************************************************************)
\* the positions of the log that hold the given command
Indices(cmd) == {i \in 1..Len(calls) : calls[i].cmd = cmd}

\* the ref a release run checks out as the base of its cherry-picks
TargetRef ==
    IF workflow = "quick" THEN "origin/release"
    ELSE RemoteRef(runRemotes[1], targetBranch)

\* the remotes a release run is to push to, in order
PushTargets ==
    IF workflow = "quick"
    THEN IF hasLiveRemote THEN <<"origin", "live">> ELSE <<"origin">>
    ELSE runRemotes

\* the entries of the log with the given command, in the order of issue
RECURSIVE Only(_, _)
Only(log, cmd) ==
    IF log = <<>> THEN <<>>
    ELSE IF Head(log).cmd = cmd THEN <<Head(log)>> \o Only(Tail(log), cmd)
    ELSE Only(Tail(log), cmd)

\* the commits of the cherry-picks issued, in the order of issue
PickedCommits == [i \in 1..Len(Only(calls, "cherry-pick")) |->
                     Only(calls, "cherry-pick")[i].commit]

IsPrefix(p, q) == Len(p) <= Len(q) /\ \A i \in 1..Len(p) : p[i] = q[i]

\* a release run was launched and has ended
RunEnded == pc = "done" /\ outcome # "none"

\* the process runs a release (Quick Release or the interactive menu), not
\* a developer utility
Releasing == workflow \in {"quick", "interactive"}

(***************************************************************************)
(* C1.  Entry guard: when the dirty check of a release run finds           *)
(* uncommitted tracked changes, the run has issued no checkout, no         *)
(* cherry-pick and no push, counted from the start of the run.  The code   *)
(* of Quick Release violates it: runQuickRelease checks out develop (and   *)
(* pulls) before executeQuickRelease looks at the work tree.               *)
(***************************************************************************)
C1_NoCheckoutPickPushWhenDirty ==
    outcome = "dirty" =>
        \A i \in 1..Len(calls) : calls[i].cmd \notin {"checkout", "cherry-pick", "push"}

(***************************************************************************)
(* C2.  In every release run a cherry-pick is issued only after a          *)
(* successful checkout of the target ref, and a push only after every      *)
(* commit handed to the run has been cherry-picked successfully.           *)
(***************************************************************************)
C2_PickAfterCheckoutPushAfterPicks ==
    \A i \in 1..Len(calls) :
        /\ calls[i].cmd = "cherry-pick" =>
              \E j \in 1..(i - 1) : calls[j] = Checkout(TargetRef, TRUE)
        /\ calls[i].cmd = "push" =>
              \A k \in 1..Len(runCommits) :
                  \E j \in 1..(i - 1) : calls[j] = CherryPick(runCommits[k], TRUE)

\* an interactive run of two commits has pushed to its second remote
C2_Witness ==
    /\ workflow = "interactive"
    /\ Len(runCommits) = 2
    /\ Len(runRemotes) = 2
    /\ \E i \in Indices("push") : calls[i].ref = runRemotes[2]

(***************************************************************************)
(* C3.  The cherry-picks of a release run are issued from the oldest       *)
(* selected commit to the newest, in whatever order the operator typed     *)
(* the indices of the newest-first list.                                   *)
(***************************************************************************)
C3_PicksOldestToNewest ==
    \A i, j \in Indices("cherry-pick") : i < j => calls[i].commit < calls[j].commit

\* the operator typed "1,3,2" (the commits 3, 1, 2 of the list 3, 2, 1), and
\* the run picked 1, 2, 3
C3_Witness ==
    /\ workflow = "quick"
    /\ Len(allCommits) = 3
    /\ runCommits = quickSelectCommits(allCommits, <<"1", ",", "3", ",", "2">>)
    /\ PickedCommits = <<1, 2, 3>>

(***************************************************************************)
(* C4.  The commits cherry-picked by a run are, in order, the reverse of   *)
(* the selection handed to it: always a prefix of the reversed selection,  *)
(* and the whole of it once the cherry-pick step of a real run is over.    *)
(***************************************************************************)
C4_PicksAreReversedSelection ==
    /\ (Releasing /\ outcome # "cancelled")
           => IsPrefix(PickedCommits, Reverse(runCommits))
    /\ (~dryRun /\ Releasing /\ (pc \in {"qe_push_origin", "qe_push_live", "qe_restore", "ie_push"}
                     \/ outcome = "success"))
           => PickedCommits = Reverse(runCommits)

\* a successful interactive run of the selection 3, 1 picked 1, 3
C4_Witness ==
    /\ workflow = "interactive"
    /\ outcome = "success"
    /\ runCommits = <<3, 1>>
    /\ PickedCommits = <<1, 3>>

(***************************************************************************)
(* C5.  A failed cherry-pick ends the run as an error: it is the last      *)
(* command of the run (no later cherry-pick, no push), and the run issues  *)
(* neither cherry-pick --continue nor cherry-pick --abort.                 *)
(***************************************************************************)
C5_FailedPickEndsRun ==
    /\ \A i \in Indices("cherry-pick") :
          ~calls[i].ok => i = Len(calls) /\ pc = "done" /\ outcome = "error"
    /\ \A i \in 1..Len(calls) :
          calls[i].cmd \notin {"cherry-pick --continue", "cherry-pick --abort"}

\* the first of two cherry-picks of a run failed
C5_Witness ==
    /\ Len(runCommits) = 2
    /\ Len(PickedCommits) = 1
    /\ ~calls[Len(calls)].ok
    /\ calls[Len(calls)].cmd = "cherry-pick"

(***************************************************************************)
(* C6.  After a successful run the last checkout of the run targets the    *)
(* branch that was current when the operator launched the run.  The code   *)
(* violates it: Quick Release saves the branch after it has switched to    *)
(* develop, and the interactive run restores nothing.                      *)
(***************************************************************************)
C6_RestoresLaunchBranch ==
    (RunEnded /\ outcome = "success" /\ ~dryRun) =>
        \E i \in Indices("checkout") :
            /\ \A j \in Indices("checkout") : j <= i
            /\ calls[i].ref = runHead

(***************************************************************************)
(* C7.  With --dry-run no mutating git command is issued.  The code        *)
(* violates it: runQuickRelease checks out develop and pulls whatever the  *)
(* flag, and interactive mode does not read the flag.                      *)
(***************************************************************************)
C7_DryRunMutatesNothing ==
    (ArgDryRun /\ pc # "main") =>
        \A i \in 1..Len(calls) : calls[i].cmd \notin MutatingCmds

(***************************************************************************)
(* C8.  End to end: 3 commits selected, 1 remote configured, a clean work  *)
(* tree and no failing command: the run ends in success with exactly one   *)
(* checkout of the target, the 3 cherry-picks in reverse order of the      *)
(* selection, 1 push, 1 restoring checkout after it and no other checkout. *)
(* The code violates it: Quick Release also checks out develop, and the    *)
(* interactive run has no restoring checkout.                              *)
(***************************************************************************)
C8_EndToEnd ==
    (/\ RunEnded
     /\ outcome \notin {"cancelled", "dirty"}
     /\ ~dirty
     /\ ~dryRun
     /\ failures = 0
     /\ Len(runCommits) = 3
     /\ remoteNames = <<"origin">>)
    => /\ outcome = "success"
       /\ Cardinality({i \in Indices("checkout") : calls[i].ref = TargetRef}) = 1
       /\ PickedCommits = Reverse(runCommits)
       /\ Cardinality(Indices("push")) = 1
       /\ Cardinality(Indices("checkout")) = 2
       /\ calls[Len(calls)].cmd = "checkout"

(***************************************************************************)
(* C9.  A failed push undoes nothing: it is the last command of the run,   *)
(* so no push, reset or other mutating command follows it, and the pushes  *)
(* that succeeded before it stay as they are.                              *)
(***************************************************************************)
C9_NothingAfterFailedPush ==
    \A i \in Indices("push") :
        ~calls[i].ok => i = Len(calls) /\ pc = "done" /\ outcome = "error"

\* the push to origin succeeded and the push to live failed
C9_Witness ==
    /\ Len(Only(calls, "push")) = 2
    /\ Only(calls, "push")[1].ok
    /\ ~Only(calls, "push")[2].ok

(***************************************************************************)
(* C10.  As claimed: at the end of a run that began to push, every remote  *)
(* the run was to push to has a push in the log.  The code stops at the    *)
(* first failed push.                                                      *)
(***************************************************************************)
C10_EveryRemoteAttempted ==
    (RunEnded /\ Indices("push") # {}) =>
        \A k \in 1..Len(PushTargets) :
            \E i \in Indices("push") : calls[i].ref = PushTargets[k]

(***************************************************************************)
(* C10, amended.  The pushes of a run go to the remotes it was to push to, *)
(* in order and one each; every push but the last succeeded; a failed push *)
(* ends the run as an error, the remotes after it getting no push; a       *)
(* successful real run has pushed to every remote.                         *)
(***************************************************************************)
C10_PushesStopAtFirstFailure ==
    LET pushes == Only(calls, "push") IN
    /\ Len(pushes) <= Len(PushTargets)
    /\ \A k \in 1..Len(pushes) :
          /\ pushes[k].ref = PushTargets[k]
          /\ k < Len(pushes) => pushes[k].ok
    /\ (pushes # <<>> /\ ~pushes[Len(pushes)].ok) => RunEnded /\ outcome = "error"
    /\ (Releasing /\ outcome = "success" /\ ~dryRun) =>
          Len(pushes) = Len(PushTargets) /\ pushes[Len(pushes)].ok

\* an interactive run to two remotes ended with its first push failed
C10_Witness ==
    /\ workflow = "interactive"
    /\ RunEnded
    /\ Len(runRemotes) = 2
    /\ Len(Only(calls, "push")) = 1
    /\ ~Only(calls, "push")[1].ok

\* the branch a release run pushes to on every remote
PushBranch == IF workflow = "quick" THEN "release" ELSE targetBranch

\* the position of the remote in the listing of the remotes
RemotePosition(name) == CHOOSE i \in 1..Len(remoteNames) : remoteNames[i] = name

(***************************************************************************)
(* C11.  As claimed: the pushes of a run go to the remotes of the run in   *)
(* the order of their selection, one push for each, every push being a     *)
(* push of HEAD to the target branch.  The second push of Quick Release    *)
(* pushes origin/release, not HEAD.                                        *)
(***************************************************************************)
C11_EveryPushIsOfHead ==
    LET pushes == Only(calls, "push") IN
    /\ Len(pushes) <= Len(PushTargets)
    /\ \A k \in 1..Len(pushes) :
          /\ pushes[k].ref = PushTargets[k]
          /\ pushes[k].src = "HEAD"
          /\ pushes[k].dst = PushBranch

(***************************************************************************)
(* C11, amended.  The pushes of a run go to the remotes of the run in      *)
(* order, one push for each, all to the target branch; the remotes of an   *)
(* interactive run stand in the order of the listing of the remotes.       *)
(* Every push is a push of HEAD but the push to live of Quick Release,     *)
(* which pushes the ref origin/release that the push to origin before it   *)
(* has just updated.                                                       *)
(***************************************************************************)
C11_PushesInSelectionOrder ==
    LET pushes == Only(calls, "push") IN
    /\ Len(pushes) <= Len(PushTargets)
    /\ \A k \in 1..Len(pushes) :
          /\ pushes[k].ref = PushTargets[k]
          /\ pushes[k].dst = PushBranch
          /\ pushes[k].src =
                IF workflow = "quick" /\ pushes[k].ref = "live"
                THEN "origin/release" ELSE "HEAD"
          /\ (workflow = "quick" /\ pushes[k].ref = "live") =>
                /\ k = 2
                /\ pushes[1] = Push("origin", "HEAD", "release", TRUE)
    /\ workflow = "interactive" =>
          \A i, j \in 1..Len(runRemotes) :
              i < j => RemotePosition(runRemotes[i]) < RemotePosition(runRemotes[j])

\* an interactive run has pushed to its two remotes, the operator having
\* selected them in the order of the listing
C11_Witness ==
    /\ workflow = "interactive"
    /\ outcome = "success"
    /\ runRemotes = <<"live", "origin">>
    /\ Len(Only(calls, "push")) = 2
    /\ Only(calls, "push")[2] = Push("origin", "HEAD", targetBranch, TRUE)

(***************************************************************************)
(* C12.  A restoring checkout that fails after the pushes of the run       *)
(* succeeded is a warning: the run still ends in success.  The code        *)
(* violates it: the checkout of line 1527 stands in the try block of the   *)
(* whole run, so its failure ends the run in the error outcome.            *)
(***************************************************************************)
C12_RestoreFailureIsWarning ==
    \A i \in Indices("checkout") :
        (/\ ~calls[i].ok
         /\ Indices("push") # {}
         /\ \A j \in Indices("push") : j < i /\ calls[j].ok)
        => outcome = "success"

\* an execute function is running
Executing ==
    pc \in {"qe_confirm", "qe_preflight", "qe_checkout", "qe_pick",
            "qe_push_origin", "qe_push_live", "qe_restore", "ie_confirm",
            "ie_preflight", "ie_checkout", "ie_pick", "ie_push"}

\* the menu stands where its execute option answers 'No commits selected!'
\* or 'No remotes selected!' and starts nothing
EmptySetRefused ==
    \/ pc = "qr_menu" /\ Len(selectedCommits) = 0
    \/ pc = "im_menu" /\ (Len(selectedCommits) = 0 \/ Len(selectedRemotes) = 0)

(***************************************************************************)
(* C13.  A release run never starts with no commit or no remote to push    *)
(* to, and where the menu refuses an empty selection the session has       *)
(* issued no mutating git command yet.  The code violates the second       *)
(* half: Quick Release has checked out develop and pulled before its menu  *)
(* is shown.                                                               *)
(***************************************************************************)
C13_NoEmptyRunAndRefusalBeforeMutation ==
    /\ Executing => Len(runCommits) > 0 /\ Len(PushTargets) > 0
    /\ EmptySetRefused =>
          \A i \in 1..Len(calls) : calls[i].cmd \notin MutatingCmds

\* a remote the release run is to push to is not configured
TargetRemoteMissing ==
    \/ workflow = "quick" /\ OutcomesOn("origin") = {FALSE}
    \/ \E k \in 1..Len(runRemotes) : OutcomesOn(runRemotes[k]) = {FALSE}

(***************************************************************************)
(* C14.  Where a remote the run must push to is not configured, the run    *)
(* is blocked before any mutation: no checkout and no cherry-pick is       *)
(* issued.  The code violates it: no step checks that origin exists, and   *)
(* Quick Release has checked out develop before anything of origin is      *)
(* looked at.                                                              *)
(***************************************************************************)
C14_MissingRemoteBlocksBeforeMutation ==
    TargetRemoteMissing =>
        \A i \in 1..Len(calls) : calls[i].cmd \notin {"checkout", "cherry-pick"}

(***************************************************************************)
(* C15.  For every input and every max the result of parseSelection is     *)
(* strictly ascending, so without duplicates, and each of its elements     *)
(* lies in 1..max.                                                         *)
(***************************************************************************)
C15_ResultAscendingInRange ==
    parsed =>
        /\ \A i, j \in 1..Len(resultIndices) :
              i < j => resultIndices[i] < resultIndices[j]
        /\ \A i \in 1..Len(resultIndices) :
              resultIndices[i] >= 1 /\ resultIndices[i] <= listLength

\* the overlapping ranges "2-3,1-2", the later one reaching below the
\* earlier, gave 1, 2, 3
C15_Witness ==
    /\ parsed
    /\ typedInput = <<"2", "-", "3", ",", "1", "-", "2">>
    /\ resultIndices = <<1, 2, 3>>

\* a token that is a single integer: decimal digits, spaces around allowed
IsNumberToken(t) ==
    Trim(t) # <<>> /\ \A i \in 1..Len(Trim(t)) : IsDigit(Trim(t)[i])

\* a token that is a start-end pair of integers
IsRangeToken(t) ==
    /\ Len(Split(t, "-")) = 2
    /\ IsNumberToken(Split(t, "-")[1])
    /\ IsNumberToken(Split(t, "-")[2])

\* the number a string of decimal digits denotes
RECURSIVE Decimal(_)
Decimal(s) ==
    IF s = <<>> THEN 0
    ELSE 10 * Decimal(SubSeq(s, 1, Len(s) - 1)) + DigitVal(s[Len(s)])

\* the indices of a list of n entries that a token covers
Covered(t, n) ==
    IF IsNumberToken(t) THEN {Decimal(Trim(t))} \cap 1..n
    ELSE IF IsRangeToken(t)
    THEN LET a == Decimal(Trim(Split(t, "-")[1]))
             b == Decimal(Trim(Split(t, "-")[2]))
         IN  {k \in 1..n : (a <= k /\ k <= b) \/ (b <= k /\ k <= a)}
    ELSE {}

\* the comma-separated tokens of the typed selection
Tokens == Split(typedInput, ",")

\* the set of the indices returned
ResultSet == {resultIndices[i] : i \in 1..Len(resultIndices)}

(***************************************************************************)
(* C16.  For a selection whose comma-separated tokens are all single       *)
(* integers or start-end pairs, parseSelection returns exactly the indices *)
(* of the list that the tokens cover, a pair covering the same indices in  *)
(* either order: "1-5, 8, 10-12" of 12 gives 1..5, 8, 10..12 and "5-2" of  *)
(* 10 gives 2..5.                                                          *)
(***************************************************************************)
C16_ResultIsCoveredIndices ==
    parsed =>
        /\ (\A i \in 1..Len(Tokens) : IsNumberToken(Tokens[i]) \/ IsRangeToken(Tokens[i]))
              => ResultSet = UNION {Covered(Tokens[i], listLength) : i \in 1..Len(Tokens)}
        /\ typedInput = <<"1", "-", "5", ",", " ", "8", ",", " ", "1", "0", "-", "1", "2">>
              => resultIndices = <<1, 2, 3, 4, 5, 8, 10, 11, 12>>
        /\ (typedInput = <<"5", "-", "2">> /\ listLength = 10)
              => resultIndices = <<2, 3, 4, 5>>

\* the reversed range "5-2" of a list of 10 entries was parsed
C16_Witness ==
    /\ parsed
    /\ typedInput = <<"5", "-", "2">>
    /\ listLength = 10
    /\ resultIndices = <<2, 3, 4, 5>>

(***************************************************************************)
(* C17.  parseSelection drops what is not a valid token: a token that is   *)
(* neither an integer nor a start-end pair, like one out of range,         *)
(* contributes no index, so the result holds the indices covered by the    *)
(* valid tokens and nothing else, and is empty for "" and for "0".  The    *)
(* code violates it: parseInt reads the digits a token begins with and     *)
(* ignores the rest, so "2a" selects index 2 and "1-2-3" selects 1 and 2.  *)
(***************************************************************************)
C17_InvalidTokensContributeNothing ==
    parsed =>
        /\ ResultSet = UNION {Covered(Tokens[i], listLength) : i \in 1..Len(Tokens)}
        /\ typedInput \in {<<>>, <<"0">>} => resultIndices = <<>>

(***************************************************************************)
(* C18.  For a commit touching "file .txt " and CON.txt the naming check   *)
(* records exactly two issues and hasIssues is true; a path segment that   *)
(* is a reserved device name is flagged in any case of its letters.  The   *)
(* code violates the first half: the pattern of the reserved names         *)
(* matches a whole segment only, so CON.txt is not flagged, and execGit    *)
(* trims the trailing space off the last path git printed.                 *)
(***************************************************************************)
C18_TwoNamingIssues ==
    /\ (checkedCommits = <<NamedCommit>> /\ checkStatus[2] \in {"passed", "issues"})
          => Len(nameIssues) = 2 /\ hasIssues
    /\ (checkedCommits = <<DeviceCommit>> /\ checkStatus[2] \in {"passed", "issues"})
          => \E k \in 1..Len(nameIssues) :
                 nameIssues[k].issue = "reserved Windows name"

(***************************************************************************)
(* C19.  The four checks are independent: a check one of whose git         *)
(* queries failed ends as unknown, never as passed, and every check has    *)
(* run when the summary is printed.  The code violates the first half:     *)
(* the failure of the diff against the target is swallowed and check 1     *)
(* prints 'No obvious file conflicts detected'.                            *)
(***************************************************************************)
C19_FailedCheckIsUnknown ==
    /\ \A k \in 1..4 : checkFailed[k] => checkStatus[k] = "unknown"
    /\ pc \in {"check_summary", "check_done"} /\ checkedCommits # <<>>
          => \A k \in 1..4 : checkStatus[k] # "pending"

(***************************************************************************)
(* C20.  hasIssues is true exactly when a conflict file, a naming issue or *)
(* a large file was recorded; the binary files listed never set it.        *)
(***************************************************************************)
C20_HasIssuesIffRecorded ==
    /\ hasIssues <=> (conflictFiles # <<>> \/ nameIssues # <<>> \/ largeFiles # <<>>)
    /\ pc = "check_done" /\ checkedCommits # <<>>
          => (outcome = "issues detected" <=> hasIssues)

\* a binary file was listed and the summary says that all checks passed
C20_Witness ==
    /\ pc = "check_done"
    /\ binaryFiles # <<>>
    /\ checkStatus[4] = "issues"
    /\ ~hasIssues
    /\ outcome = "all checks passed"

\* the numstat lines of the commits checked, as git reported them
ReportedLines ==
    UNION { {checkedCommits[c][k] : k \in 1..Len(checkedCommits[c])} :
              c \in 1..Len(checkedCommits) }

(***************************************************************************)
(* C21.  Once the large-file check has run, a changed file is listed as    *)
(* large exactly when its added-line count is a number greater than        *)
(* 10000: a count of 10000 is not listed, and the binary marker - never.   *)
(***************************************************************************)
C21_LargeIffAddedAbove10000 ==
    checkStatus[3] \in {"passed", "issues"} =>
        /\ \A l \in ReportedLines :
              (IsNumberToken(l.added) /\ Decimal(l.added) > 10000)
                  <=> \E k \in 1..Len(largeFiles) :
                          /\ largeFiles[k].file = l.path
                          /\ largeFiles[k].lines = Decimal(l.added)
        /\ \A k \in 1..Len(largeFiles) :
              \E l \in ReportedLines :
                  /\ l.path = largeFiles[k].file
                  /\ l.added # <<"-">>
                  /\ Decimal(l.added) = largeFiles[k].lines
                  /\ largeFiles[k].lines > 10000

\* a.txt with 10000 lines, a.txt with 10001 lines and a binary file were
\* checked: only the 10001 lines are listed
C21_Witness ==
    /\ checkedCommits = <<PlainCommit, LargeCommit, BinaryCommit>>
    /\ checkStatus[3] = "issues"
    /\ largeFiles = <<[file |-> <<"a", ".", "t", "x", "t">>, lines |-> 10001]>>

\* the safety report of a menu is on the screen
ReportShown == pc \in {"qr_check", "im_check"}

\* the selections, the target branch and the repository
CheckedState == <<selectedCommits, selectedRemotes, targetBranch, allCommits,
                  head, dirty, calls>>

\* C22: the safety check is advisory: it issues read-only git queries only,
\* running it and leaving its report change neither the selections nor the
\* target branch nor the repository, whatever it found, and the execute
\* choice of a menu is open exactly as it is without a check: in Quick
\* Release with a commit selected, in the interactive menu with a commit and
\* a remote selected.
C22_ReadOnly ==
    \A i \in 1..Len(checkCalls) : checkCalls[i].cmd \notin MutatingCmds

C22_ExecuteOpen ==
    /\ (pc = "qr_menu" /\ selectedCommits # <<>>) => ENABLED QR_Execute
    /\ (pc = "im_menu" /\ selectedCommits # <<>> /\ selectedRemotes # <<>>)
          => ENABLED IM_Execute

C22_ReportLeavesState ==
    (ReportShown \/ ReportShown') =>
        /\ UNCHANGED CheckedState
        /\ pc = "qr_check" => pc' = "qr_menu"
        /\ pc = "im_check" => pc' = "im_menu"

C22_SafetyCheckIsAdvisory ==
    /\ [](C22_ReadOnly /\ C22_ExecuteOpen)
    /\ [][C22_ReportLeavesState]_vars

C22_Witness ==
    /\ pc = "qr_check"
    /\ hasIssues
    /\ Len(selectedCommits) = 2
    /\ Len(checkCalls) = 10
    /\ FailedCalls(checkCalls) = 0

\* what a log entry asks of git: the command, the ref, branch or remote it
\* names, the commit it names and the refspec of a push
Asked(call) == <<call.cmd, call.ref, call.commit, call.src, call.dst>>

\* the commands of the steps of "What Quick Release Does", in the order of
\* the list, for a run that picks the commits picks
DocumentedSteps(picks) ==
    <<Asked(Fetch(TRUE)),                        \* 1. fetch all remotes
      Asked(Checkout("develop", TRUE)),          \* 2. sync with origin/develop
      Asked(Pull("origin", "develop", TRUE)),
      Asked(Query("log", TRUE)),                 \* 3. the commits of origin/develop
      Asked(Query("remote", TRUE)),              \* 4. the summary for review
      Asked(Query("status", TRUE)),              \* 5. uncommitted changes
      Asked(Query("rev-parse", TRUE)),
      Asked(Checkout("origin/release", TRUE))>>  \* 6. checkout origin/release
    \o [k \in 1..Len(picks) |-> Asked(CherryPick(picks[k], TRUE))]     \* 7.
    \o <<Asked(Push("origin", "HEAD", "release", TRUE))>>              \* 8.
    \o (IF hasLiveRemote
        THEN <<Asked(Push("live", "origin/release", "release", TRUE))>> \* 9.
        ELSE <<>>)
    \o <<Asked(Checkout(originalBranch, TRUE))>>                       \* 10.

\* C23: a Quick Release that ends in success issued, from its start to its
\* end, exactly the commands of the documented steps in the documented
\* order: fetch, the sync with origin/develop, the log of origin/develop,
\* the review, the check for uncommitted changes, the checkout of
\* origin/release, the cherry-picks of the selected commits oldest first,
\* the push to origin, the push to live where it is configured, and last
\* the restoring checkout; every command from the checkout of
\* origin/release on succeeded.
C23_StepsInDocumentedOrder ==
    (workflow = "quick" /\ outcome = "success" /\ ~dryRun) =>
        /\ {PickedCommits[k] : k \in 1..Len(PickedCommits)}
              = {runCommits[k] : k \in 1..Len(runCommits)}
        /\ \A j, k \in 1..Len(PickedCommits) :
              j < k => PickedCommits[j] < PickedCommits[k]
        /\ [i \in 1..Len(calls) |-> Asked(calls[i])] = DocumentedSteps(PickedCommits)
        /\ \A i \in 8..Len(calls) : calls[i].ok

\* a release of two commits to origin and live
C23_Witness ==
    /\ workflow = "quick"
    /\ outcome = "success"
    /\ ~dryRun
    /\ hasLiveRemote
    /\ Len(runCommits) = 2
    /\ Len(calls) = 13

\* the commits a log of git commands leaves HEAD, the remote-tracking ref
\* origin/release and the branch release of origin and of live at, each
\* written as the commits cherry-picked on top of the origin/release the
\* run began with ("none": not written by the run).  A checkout of
\* origin/release puts HEAD on the tracking ref, a cherry-pick adds its
\* commit to HEAD, a push writes the commit its source names to the remote
\* and, on origin, to the tracking ref as well.
RECURSIVE RefsAfter(_, _)
RefsAfter(log, refs) ==
    IF log = <<>> THEN refs
    ELSE LET call == Head(log)
             pushed == IF call.src = "HEAD" THEN refs.HEAD ELSE refs.tracking
             next ==
                 IF ~call.ok THEN refs
                 ELSE IF call.cmd = "checkout" /\ call.ref = "origin/release"
                 THEN [refs EXCEPT !.HEAD = refs.tracking]
                 ELSE IF call.cmd = "cherry-pick"
                 THEN [refs EXCEPT !.HEAD = Append(refs.HEAD, call.commit)]
                 ELSE IF call.cmd = "push" /\ call.ref = "origin"
                 THEN [refs EXCEPT !.origin = pushed, !.tracking = pushed]
                 ELSE IF call.cmd = "push" /\ call.ref = "live"
                 THEN [refs EXCEPT !.live = pushed]
                 ELSE refs
         IN  RefsAfter(Tail(log), next)

Refs == RefsAfter(calls, [HEAD |-> <<>>, tracking |-> <<>>,
                          origin |-> "none", live |-> "none"])

\* the remote is configured
Configured(remote) == \E i \in 1..Len(remoteNames) : remoteNames[i] = remote

\* the pushes of the log to the remote
PushesTo(remote) == {i \in Indices("push") : calls[i].ref = remote}

\* a Quick Release that is no dry run is past its step "5/5"
LiveStepOver ==
    /\ workflow = "quick"
    /\ ~dryRun
    /\ \E i \in PushesTo("origin") : calls[i].ok
    /\ pc # "qe_push_live"

\* C24: in Quick Release the push to live/release is issued if and only if
\* a remote named live is configured (a run that got past the push to
\* origin pushed to live exactly if live is configured), no push to live is
\* issued but after a push to origin that succeeded, and once both pushes
\* succeeded release is the same commit on origin and on live: the HEAD the
\* cherry-picks of the run produced.  The code violates the first part: it
\* takes a failed `git remote -v` as "live is not configured".
C24_LivePushIffConfigured ==
    workflow = "quick" =>
        /\ LiveStepOver => (PushesTo("live") # {} <=> Configured("live"))
        /\ PushesTo("live") # {} => Configured("live")
        /\ \A i \in PushesTo("live") :
              \E j \in PushesTo("origin") : j < i /\ calls[j].ok
        /\ (\E i \in PushesTo("live") : calls[i].ok) =>
              /\ Refs.live = Refs.origin
              /\ Refs.live = Reverse(runCommits)

\* what holds of C24: the same with "getRemotes() listed live" in the place
\* of "live is configured"
C24_LivePushIffListed ==
    workflow = "quick" =>
        /\ LiveStepOver => (PushesTo("live") # {} <=> hasLiveRemote)
        /\ PushesTo("live") # {} => Configured("live")
        /\ \A i \in PushesTo("live") :
              \E j \in PushesTo("origin") : j < i /\ calls[j].ok
        /\ (\E i \in PushesTo("live") : calls[i].ok) =>
              /\ Refs.live = Refs.origin
              /\ Refs.live = Reverse(runCommits)

\* both pushes of a release of two commits succeeded
C24_BothPushed ==
    /\ workflow = "quick"
    /\ Len(runCommits) = 2
    /\ \E i \in PushesTo("live") : calls[i].ok

\* the answer is y or yes, whatever the case of its letters and the blanks
\* around it
SaysYes(typed) == ToLowerCase(Trim(typed)) \in {<<"y">>, <<"y", "e", "s">>}

\* the process was started with -y or --yes
YesFlag == ArgYes

C25_WitnessAnswered ==
    /\ ~YesFlag
    /\ pc = "qe_preflight"
    /\ confirmAnswers = << <<" ", "Y", "E", "S">> >>

\* the k newest commits of a branch of n commits, newest first (all of them
\* if n < k)
Newest(k, n) == [i \in 1..Min(k, n) |-> n + 1 - i]

\* the number of commits of origin/develop, the log having listed listed
\* (the commits of a branch of n commits are numbered 1..n, oldest first)
HistoryOf(listed) == listed[1]

\* Quick Release has loaded the commits and enters its menu
Loaded == pc = "qr_load" /\ pc' = "qr_menu"

\* C26: `git-ui <k>` pre-selects the k newest commits of origin/develop, or
\* all of its n commits if n < k, for every k >= 1.  The code violates it
\* for k > 30: it loads the 30 newest commits only (`git log -30`) and
\* selects among those.
C26_PreselectsNewestK ==
    [][(Loaded /\ InitialK >= 1) =>
          selectedCommits' = Newest(InitialK, HistoryOf(allCommits'))]_vars

\* what holds of C26: the pre-selected commits are the k newest of the
\* commits loaded, which are the 30 newest of origin/develop
C26_PreselectsNewestLoaded ==
    [][(Loaded /\ InitialK >= 1) =>
          /\ allCommits' = Newest(LogCount, HistoryOf(allCommits'))
          /\ selectedCommits' = Newest(Min(InitialK, LogCount), HistoryOf(allCommits'))]_vars

\* `git-ui 31` on 31 commits has pre-selected 30 of them
C26_Truncated ==
    /\ InitialK = LongHistory
    /\ pc = "qr_menu"
    /\ Len(selectedCommits) = LogCount

\* the arguments select a mode other than Quick Release
SelectsMode == ArgHelp \/ ArgsInclude(StatusFlag) \/ ArgInteractive

\* the first argument is written as an integer that is at least 1
IsCount(first) == IsNumberToken(first) /\ Decimal(first) >= 1

\* main has returned or has entered a workflow
Dispatched == pc # "main"

\* the process has ended with the exit code, no git command issued
EndedWithoutGit(code) ==
    /\ pc = "done"
    /\ exitCode = code
    /\ calls = <<>>
    /\ failures = 0
    /\ workflow = "none"

\* C27: an invocation whose arguments select no mode and whose first
\* argument is not an integer that is at least 1 exits with a non-zero code
\* and issues no git command.  The code violates it for a first argument
\* that begins with such an integer, like 2abc: parseInt reads the 2 and
\* Quick Release starts.
C27_InvalidCountExits ==
    (Dispatched /\ ~SelectsMode /\ ~NoArgs /\ ~IsCount(args.first)) =>
        /\ pc = "done"
        /\ exitCode # 0
        /\ calls = <<>>
        /\ failures = 0

\* what holds of C27: the first argument that parseInt reads as no number
\* or as a number below 1 ends the process with code 1 and no git command
C27_UnparsedCountExits ==
    (Dispatched /\ ~SelectsMode /\ ~NoArgs /\ ~ArgKValid) =>
        /\ EndedWithoutGit(1)
        /\ outcome = "invalid arguments"

\* `git-ui 0` has ended with code 1
C27_ZeroRefused ==
    /\ args = CommandLine(<<"0">>, {})
    /\ EndedWithoutGit(1)

\* C28: whenever the arguments contain --help or -h, whatever the other
\* arguments, the process prints the usage and exits with code 0, having
\* issued no git command and started no workflow.
C28_HelpPrintsUsageOnly ==
    (ArgHelp /\ Dispatched) =>
        /\ EndedWithoutGit(0)
        /\ outcome = "usage"

\* help asked with --status given as well
C28_Witness ==
    /\ ArgHelp
    /\ ArgsInclude(StatusFlag)
    /\ EndedWithoutGit(0)
    /\ outcome = "usage"

\* help asked after a count and -y
C28_WitnessAfterCount ==
    /\ ArgHelp
    /\ ArgKValid
    /\ ArgYes
    /\ EndedWithoutGit(0)

\* a menu of Quick Release or of the interactive mode is on the screen, or
\* the report of a safety check called from it
InMenu == pc \in {"qr_menu", "im_menu", "qr_check", "im_check"}

\* C29: in every state of the two menus the selection holds no commit
\* twice, whatever was selected, selected again or reset before and
\* whatever count the process was started with.  (A commit of the model is
\* its fullHash.)
C29_NoDuplicateCommits ==
    InMenu =>
        \A i, j \in 1..Len(selectedCommits) :
            i # j => selectedCommits[i] # selectedCommits[j]

\* the interactive menu with every commit of the branch selected
C29_Witness ==
    /\ pc = "im_menu"
    /\ Len(selectedCommits) = MaxCommits

\* the execute option of a menu is taken: a run starts
RunStarts == pc \in {"qr_menu", "im_menu"} /\ pc' \in {"qe_confirm", "ie_confirm"}

\* C30: a session starts at most one execution run.  A run starts from a
\* menu only, with the selection of the menu, which is not empty; from then
\* on the session is in that run or over: no menu is shown again and no
\* run starts, whether the run succeeds, fails or is declined at its
\* confirmation.
C30_OneRunPerSession ==
    [][/\ pc' \in {"qe_confirm", "ie_confirm"} =>
             /\ RunStarts
             /\ selectedCommits # <<>>
             /\ runCommits' = selectedCommits
       /\ (Executing \/ pc = "done") =>
             /\ Executing' \/ pc' = "done"
             /\ ~InMenu'
             /\ pc' \notin {"qe_confirm", "ie_confirm"}]_vars

\* the operator declined the confirmation of Quick Release and the session
\* is over
C30_Witness ==
    /\ workflow = "quick"
    /\ pc = "done"
    /\ outcome = "cancelled"
    /\ runCommits # <<>>

\* a run that failed at a cherry-pick has ended the session
C30_WitnessFailed ==
    /\ pc = "done"
    /\ outcome = "error"
    /\ Indices("cherry-pick") # {}

(***************************************************************************)
(* C31: fatal errors are reported and handled.                             *)
(***************************************************************************)
\* a command that changes the repository failed and was the last one issued
FatalFailure ==
    /\ calls # <<>>
    /\ ~calls[Len(calls)].ok
    /\ calls[Len(calls)].cmd \in {"checkout", "cherry-pick", "push", "reset"}

\* C31: every fatal error (a dirty work tree, a failed checkout, cherry-pick
\* or push, a failed checkout or reset of go-to-commit) is reported, and then
\* the process exits or the previous menu is shown again: no failed git
\* command leaves main as an unhandled error.
C31_NoErrorEscapes == outcome # "unhandled"

\* in the release workflows the fatal errors end the run with a message:
\* the failed command is caught and the process ends with the error outcome
C31_ReleaseErrorsHandled ==
    (workflow \in {"quick", "interactive"} /\ FatalFailure /\ pc = "done")
        => (outcome = "error" \/ exitCode = 1)

\* go-to-commit was started from the command line, its detached checkout
\* failed, and the error left main
C31_EscapedCheckout ==
    /\ workflow = "goto"
    /\ FatalFailure
    /\ outcome = "unhandled"
    /\ pc = "done"

(***************************************************************************)
(* The sync of two remotes (spec 4.5): fetch, divergence check, safety     *)
(* check, three review gates, push, verification.                          *)
(***************************************************************************)
SyncFlag == <<"-", "-", "s", "y", "n", "c">>

\* the branch the two remotes are synced on
SyncBranch == "main"

\* the most commits the target may hold that the source does not
MaxBehind == 1

\* compare(targetRef, sourceRef) -> DivergenceInfo, given whether targetRef
\* exists and the commits on either side of the symmetric difference
compare(exists, ahead, behind) ==
    IF ~exists
    THEN [aheadCount |-> ahead, behindCount |-> 0, canFastForward |-> TRUE]
    ELSE [aheadCount |-> ahead, behindCount |-> behind,
          canFastForward |-> (behind = 0 /\ ahead > 0)]

\* the ExecutionPlan of a sync: the commits oldest first
ExecutionPlan(source, dest, info) ==
    [sourceRef |-> RemoteRef(source, SyncBranch),
     targetRef |-> RemoteRef(dest, SyncBranch),
     commits |-> [i \in 1..info.aheadCount |-> i],
     canFastForward |-> info.canFastForward,
     forceRequired |-> ~info.canFastForward]

FetchRemote(remote, ok) == GitCall("fetch", remote, 0, "", "", ok)

\* push(remote, localRef, remoteBranch, force): a force push is a
\* force-with-lease push
SyncPush(dest, src, force, ok) ==
    GitCall(IF force THEN "push --force-with-lease" ELSE "push", dest, 0, src,
            RemoteRef("refs/heads", SyncBranch), ok)

\* what no step of a sync changes
syncIdle == <<workflow, args, skipAllConfirm, dryRun, head, dirty, remoteNames,
              menuVars, runVars, execVars, parseVars, safetyVars, utilVars>>

SyncInit ==
    /\ pc = "Selecting"
    /\ workflow = "sync"
    /\ args = CommandLine(SyncFlag, {})
    /\ skipAllConfirm = FALSE
    /\ dryRun = FALSE
    /\ head = "feature"
    /\ dirty = FALSE
    /\ remoteNames \in RemoteConfigs
    /\ allCommits = <<>>
    /\ selectedCommits = <<>>
    /\ selectedRemotes = <<>>
    /\ targetBranch = "release"
    /\ calls = <<>>
    /\ failures = 0
    /\ runHead = "feature"
    /\ execStart = 0
    /\ runCommits = <<>>
    /\ runRemotes = <<>>
    /\ hasLiveRemote = FALSE
    /\ originalBranch = ""
    /\ idx = 0
    /\ outcome = "none"
    /\ exitCode = -1
    /\ typedInput = <<>>
    /\ listLength = 0
    /\ resultIndices = <<>>
    /\ parsed = FALSE
    /\ SafetyIdle
    /\ mode = "detach"
    /\ resolved = 0
    /\ syncPlan = NoPlan

\* the sync ends with the given outcome
SyncEnd(result) ==
    /\ outcome' = result
    /\ Exit(0)

\* Selecting: two remotes are needed; both are fetched, a failed fetch being
\* a warning; the divergence of the two refs is computed and the safety
\* check run
Sync_Select ==
    /\ pc = "Selecting"
    /\ IF Len(remoteNames) < 2
       THEN /\ SyncEnd("aborted")
            /\ UNCHANGED <<calls, failures, syncPlan>>
       ELSE \E s \in 1..Len(remoteNames), d \in 1..Len(remoteNames) :
               /\ s # d
               /\ \E okSource \in Outcomes :
                     \E okDest \in OutcomesAfter(IF okSource THEN 0 ELSE 1) :
                        Issue(<<FetchRemote(remoteNames[s], okSource),
                                FetchRemote(remoteNames[d], okDest),
                                Query("rev-list", TRUE), Query("diff", TRUE)>>)
               /\ \E exists \in BOOLEAN, ahead \in 0..MaxCommits, behind \in 0..MaxBehind :
                     syncPlan' = ExecutionPlan(remoteNames[s], remoteNames[d],
                                               compare(exists, ahead, behind))
               /\ pc' = "SafetyChecked"
               /\ UNCHANGED <<outcome, exitCode>>
    /\ UNCHANGED <<syncIdle, confirmAnswers>>

\* SafetyChecked: the summary is put on the screen
Sync_Summary ==
    /\ pc = "SafetyChecked"
    /\ pc' = "Review1"
    /\ UNCHANGED <<syncIdle, calls, failures, outcome, exitCode, confirmAnswers,
                   syncPlan>>

\* a gate that lets the sync go on whatever is answered
ReviewUnheeded(gate, following) ==
    /\ pc = gate
    /\ \E typed \in Typed :
          /\ confirmAnswers' = confirmAnswers \o Asking(typed)
          /\ pc' = following
          /\ UNCHANGED <<outcome, exitCode>>
    /\ UNCHANGED <<syncIdle, calls, failures, syncPlan>>

\* one review gate: accepted, the sync goes on to the following state;
\* declined, the sync is cancelled
Review(gate, following) ==
    /\ pc = gate
    /\ \E typed \in Typed :
          /\ confirmAnswers' = confirmAnswers \o Asking(typed)
          /\ IF confirm(typed)
             THEN pc' = following /\ UNCHANGED <<outcome, exitCode>>
             ELSE SyncEnd("cancelled")
    /\ UNCHANGED <<syncIdle, calls, failures, syncPlan>>

\* the gate of the summary
Sync_Review1 == Review("Review1", "Review2")

\* the gate of the commit list
Sync_Review2 == Review("Review2", "Review3")

\* the gate of the diff stat
Sync_Review3 == Review("Review3", "PushDecision")

\* a push decision that pushes without force where the force push is declined
Sync_PushDowngraded ==
    /\ pc = "PushDecision"
    /\ \E typed \in Typed, ok \in Outcomes :
          /\ confirmAnswers' =
                confirmAnswers \o (IF syncPlan.forceRequired THEN Asking(typed) ELSE <<>>)
          /\ Issue(<<SyncPush(syncPlan.targetRef, syncPlan.sourceRef,
                              syncPlan.forceRequired /\ confirm(typed), ok)>>)
          /\ IF ok
             THEN pc' = "Pushed" /\ UNCHANGED <<outcome, exitCode>>
             ELSE SyncEnd("error")
    /\ UNCHANGED <<syncIdle, syncPlan>>

\* PushDecision: a target that can be fast-forwarded is pushed to; any other
\* needs one more confirmation, for a force-with-lease push, and declining
\* it cancels the sync
Sync_PushDecision ==
    /\ pc = "PushDecision"
    /\ \E typed \in Typed :
          /\ confirmAnswers' =
                confirmAnswers \o (IF syncPlan.forceRequired THEN Asking(typed) ELSE <<>>)
          /\ IF syncPlan.forceRequired /\ ~confirm(typed)
             THEN /\ SyncEnd("cancelled")
                  /\ UNCHANGED <<calls, failures>>
             ELSE \E ok \in Outcomes :
                     /\ Issue(<<SyncPush(syncPlan.targetRef,
                                         syncPlan.sourceRef, syncPlan.forceRequired,
                                         ok)>>)
                     /\ IF ok
                        THEN pc' = "Pushed" /\ UNCHANGED <<outcome, exitCode>>
                        ELSE SyncEnd("error")
    /\ UNCHANGED <<syncIdle, syncPlan>>

\* Pushed: the heads of the two remotes are asked for again; success is
\* reported where they are the same, a warning where they differ
Sync_Verify ==
    /\ pc = "Pushed"
    /\ \E okSource \in Outcomes, same \in BOOLEAN :
          /\ Issue(<<Query("ls-remote", okSource), Query("ls-remote", TRUE)>>)
          /\ outcome' = IF okSource /\ same THEN "success" ELSE "mismatch"
    /\ pc' = "Verified"
    /\ UNCHANGED <<syncIdle, exitCode, confirmAnswers, syncPlan>>

SyncNext ==
    \/ Sync_Select
    \/ Sync_Summary
    \/ Sync_Review1
    \/ Sync_Review2
    \/ Sync_Review3
    \/ Sync_PushDecision
    \/ Sync_Verify

SyncSpec == SyncInit /\ [][SyncNext]_vars

(***************************************************************************)
(* C32, C33: the gates of a sync.                                          *)
(***************************************************************************)
\* the commands of a sync that push
PushCmds == {"push", "push --force-with-lease"}

\* the pushes a sync has issued
SyncPushes == {i \in 1..Len(calls) : calls[i].cmd \in PushCmds}

\* the commands a sync has issued that change the repository or a remote
SyncMutations == {i \in 1..Len(calls) : calls[i].cmd \in MutatingCmds \cup PushCmds}

\* the prompt number i of the sync was shown and accepted
Accepted(i) == i <= Len(confirmAnswers) /\ SaysYes(confirmAnswers[i])

\* the last prompt shown was number i, and it was declined
DeclinedAt(i) == Len(confirmAnswers) = i /\ ~SaysYes(confirmAnswers[i])

\* the review gates: summary, commit list, diff stat
Gates == 1..3

\* C32: the three review gates of a sync (summary, commit list, diff stat)
\* are passed in sequence, and declining any one of them cancels the sync
\* with no push issued and nothing mutated up to that point.
C32_GatesInSequence ==
    /\ pc = "Review1" => confirmAnswers = <<>>
    /\ pc = "Review2" => Len(confirmAnswers) = 1 /\ Accepted(1)
    /\ pc = "Review3" => Len(confirmAnswers) = 2 /\ \A i \in 1..2 : Accepted(i)
    /\ SyncPushes # {} => \A i \in Gates : Accepted(i)
    /\ \A i \in Gates :
          DeclinedAt(i) => /\ outcome = "cancelled"
                           /\ pc = "done"
                           /\ SyncMutations = {}

\* a sync was cancelled at its third gate, after its fetches
C32_Witness ==
    /\ DeclinedAt(3)
    /\ Accepted(1)
    /\ Accepted(2)
    /\ calls # <<>>
    /\ outcome = "cancelled"

\* all three gates were accepted and the push was issued
C32_WitnessPushed ==
    /\ \A i \in Gates : Accepted(i)
    /\ SyncPushes # {}

\* C33: where the target cannot be fast-forwarded, a push is issued only
\* after one more confirmation and is then a force-with-lease push;
\* declining that confirmation cancels the sync, and no push without force
\* is ever issued.
C33_ForceNeedsConfirmation ==
    ~syncPlan.canFastForward =>
        /\ \A i \in SyncPushes :
              /\ calls[i].cmd = "push --force-with-lease"
              /\ Len(confirmAnswers) = 4
              /\ Accepted(4)
        /\ Cardinality(SyncPushes) <= 1
        /\ DeclinedAt(4) => /\ outcome = "cancelled"
                            /\ pc = "done"
                            /\ SyncPushes = {}

\* a force-with-lease push was issued after the fourth confirmation
C33_Witness ==
    /\ ~syncPlan.canFastForward
    /\ Accepted(4)
    /\ \E i \in SyncPushes : calls[i].cmd = "push --force-with-lease"

\* the force push was declined after the three gates
C33_WitnessDeclined ==
    /\ ~syncPlan.canFastForward
    /\ \A i \in Gates : Accepted(i)
    /\ DeclinedAt(4)

(***************************************************************************)
(* C34: --goto is a detached checkout by default.                          *)
(***************************************************************************)
\* the commands issued that change the repository: those of MutatingCmds and
\* the creation of a branch
Mutations ==
    {i \in 1..Len(calls) :
        \/ calls[i].cmd \in MutatingCmds
        \/ calls[i].cmd = "branch" /\ calls[i].ref # ""}

\* the detached checkouts issued
Detaches ==
    {i \in 1..Len(calls) : calls[i].cmd = "checkout" /\ calls[i].ref = "--detach"}

\* --goto <ref> was given without --soft, --mixed or --hard
GotoByDefault ==
    /\ workflow = "goto"
    /\ ~ArgsInclude(SoftFlag)
    /\ ~ArgsInclude(MixedFlag)
    /\ ~ArgsInclude(HardFlag)

\* C34: --goto <ref> without --soft, --mixed or --hard issues no reset and at
\* most one `checkout --detach`, of the commit the ref resolved to, and
\* changes nothing when the ref cannot be resolved, when the operator
\* declines and in a dry run.
C34_DetachedByDefault ==
    GotoByDefault =>
        /\ \A i \in 1..Len(calls) : calls[i].cmd # "reset"
        /\ Cardinality(Detaches) <= 1
        /\ Mutations = Detaches
        /\ \A i \in Detaches : resolved # 0 /\ calls[i].commit = resolved
        /\ (outcome \in {"unresolved", "cancelled", "dry run"} \/ dryRun)
              => Mutations = {} /\ head = "feature"

\* the detached checkout of the resolved commit was done
C34_Witness ==
    /\ GotoByDefault
    /\ \E i \in Detaches : calls[i].ok /\ calls[i].commit = resolved
    /\ head = "HEAD"
    /\ outcome = "success"

\* the operator declined the detached checkout
C34_WitnessDeclined ==
    /\ GotoByDefault
    /\ outcome = "cancelled"
    /\ resolved # 0

\* the dry run of a confirmed detached checkout
C34_WitnessDryRun ==
    /\ GotoByDefault
    /\ outcome = "dry run"
    /\ skipAllConfirm

\* the ref did not resolve
C34_WitnessUnresolved ==
    /\ GotoByDefault
    /\ outcome = "unresolved"

(***************************************************************************)
(* C35: the revert of the last N commits.                                  *)
(***************************************************************************)
IsRevert(entry) == entry.cmd = "revert"

\* the reverts issued, in order
Reverts == SelectSeq(calls, IsRevert)

\* revertLastCommits is running or has returned
Reverting ==
    \/ workflow = "revert"
    \/ workflow = "utilities" /\ runCommits # <<>>

C35_WitnessFirstFailed ==
    /\ Reverting
    /\ Len(runCommits) >= 2
    /\ Len(Reverts) = 1
    /\ ~Reverts[1].ok
    /\ outcome = "error"

\* all the commits were reverted
C35_WitnessAll ==
    /\ Reverting
    /\ Len(runCommits) >= 2
    /\ outcome = "success"

\* the operator declined
C35_WitnessDeclined ==
    /\ Reverting
    /\ outcome = "cancelled"

(***************************************************************************)
(* The menus that select commits on their own: the operator makes one      *)
(* selection after the other, and what was typed is kept next to the       *)
(* selection it led to.                                                    *)
(***************************************************************************)
\* the menu of Quick Release over the commits of origin/develop, or the
\* interactive menu, nothing selected yet
SelectInit ==
    /\ \/ /\ workflow = "quick"
          /\ pc = "qr_menu"
          /\ head = "develop"
          /\ calls = <<Fetch(TRUE), Checkout("develop", TRUE),
                       Pull("origin", "develop", TRUE), Query("log", TRUE)>>
          /\ \E n \in Histories \ {0} : allCommits = GitLog(n, LogCount)
       \/ /\ workflow = "interactive"
          /\ pc = "im_menu"
          /\ head = "feature"
          /\ calls = <<Fetch(TRUE)>>
          /\ allCommits = <<>>
    /\ args = NoArguments
    /\ skipAllConfirm = FALSE
    /\ dryRun = FALSE
    /\ dirty = FALSE
    /\ remoteNames \in {<<"origin">>, <<"live", "origin">>}
    /\ selectedCommits = <<>>
    /\ selectedRemotes = <<>>
    /\ targetBranch = "release"
    /\ failures = 0
    /\ runHead = "feature"
    /\ execStart = 0
    /\ runCommits = <<>>
    /\ runRemotes = <<>>
    /\ hasLiveRemote = FALSE
    /\ originalBranch = ""
    /\ idx = 0
    /\ outcome = "none"
    /\ exitCode = -1
    /\ typedInput = <<>>
    /\ listLength = 0
    /\ resultIndices = <<>>
    /\ parsed = FALSE
    /\ SafetyIdle
    /\ mode = "detach"
    /\ resolved = 0
    /\ syncPlan = NoPlan

\* a selection in the menu of Quick Release
QuickSelectTyped ==
    \E answer \in SelectionInputs :
       /\ QuickSelect(answer)
       /\ typedInput' = Prompt(answer)
       /\ listLength' = Len(allCommits)

\* a selection in the interactive menu; no prompt is shown for a branch
\* without commits
MenuSelectTyped ==
    \E ok \in Outcomes :
       \E ok2 \in OutcomesAfter(IF ok THEN 0 ELSE 1), n \in {0, MaxCommits},
          answer \in SelectionInputs :
           /\ MenuSelect(answer, n, ok, ok2)
           /\ listLength' = Len(getCommitsFromBranch(n, LogCount, ok2))
           /\ typedInput' = IF listLength' = 0 THEN <<>> ELSE Prompt(answer)
           /\ UNCHANGED calls

SelectNext ==
    \/ QuickSelectTyped
    \/ MenuSelectTyped

SelectSpec == SelectInit /\ [][SelectNext]_vars

(***************************************************************************)
(* C36: a selection replaces the one before.                               *)
(***************************************************************************)
\* the commits selected
Chosen == {selectedCommits[i] : i \in 1..Len(selectedCommits)}

\* the commit at position i of the list the selection was made from
Listed(i) ==
    IF workflow = "quick" THEN allCommits[i] ELSE GitLog(listLength, LogCount)[i]

\* a token without a digit
NoDigit(t) == \A i \in 1..Len(t) : ~IsDigit(t[i])

\* every token typed is an integer, a start-end pair, or holds no number
WellFormed ==
    \A i \in 1..Len(Tokens) :
       IsNumberToken(Tokens[i]) \/ IsRangeToken(Tokens[i]) \/ NoDigit(Tokens[i])

\* the indices of the list the typed expression names
Named == UNION {Covered(Tokens[i], listLength) : i \in 1..Len(Tokens)}

\* C36: selecting commits replaces the selection instead of extending it:
\* the selection is what the typed expression names and nothing of the one
\* before, and it is empty after a cancelled prompt ("0" or nothing typed)
\* and after an expression that names no index of the list, in the menu of
\* Quick Release and in the interactive menu.
C36_SelectionReplaced ==
    /\ typedInput \in {<<>>, <<"0">>} => selectedCommits = <<>>
    /\ WellFormed =>
          /\ Chosen = {Listed(i) : i \in Named}
          /\ Len(selectedCommits) = Cardinality(Named)

\* a selection of two commits was followed by a cancelled prompt: nothing is
\* selected
C36_Witness ==
    /\ typedInput = <<"0">>
    /\ listLength >= 2
    /\ selectedCommits = <<>>

\* an index out of range was typed in the interactive menu
C36_WitnessNoIndex ==
    /\ workflow = "interactive"
    /\ typedInput = <<"9">>
    /\ listLength = MaxCommits
    /\ selectedCommits = <<>>

\* one commit is selected, by the expression typed last
C36_WitnessOne ==
    /\ workflow = "quick"
    /\ typedInput = <<"2">>
    /\ selectedCommits = <<allCommits[2]>>

(***************************************************************************)
(* C37: a failed status query counts as a clean work tree.                 *)
(***************************************************************************)
\* the pre-flight check of a release run is the step taken, and its status
\* query fails
StatusQueryFails ==
    /\ pc \in {"qe_preflight", "ie_preflight"}
    /\ Len(calls') > Len(calls)
    /\ calls'[Len(calls) + 1] = Query("status", FALSE)

\* C37: when the status query of the dirty-tree check fails, the work tree
\* is taken as clean: hasUncommittedChanges returns false and the release
\* run goes on to the checkout of the target ref, whatever the work tree
\* holds.
C37_FailedStatusIsClean ==
    [][StatusQueryFails =>
          /\ ~hasUncommittedChanges(FALSE, dirty')
          /\ pc' = (IF pc = "qe_preflight" THEN "qe_checkout" ELSE "ie_checkout")
          /\ outcome' = outcome
          /\ exitCode' = exitCode]_vars

\* the status query failed over a work tree with changes, and the target ref
\* was checked out next
C37_Witness ==
    /\ workflow \in {"quick", "interactive"}
    /\ dirty
    /\ \E i \in 1..Len(calls) :
          /\ i > execStart
          /\ calls[i] = Query("status", FALSE)
          /\ \E j \in (i + 1)..Len(calls) :
                calls[j].cmd = "checkout" /\ calls[j].ref = TargetRef

(***************************************************************************)
(* C38: no 'All checks passed' over a check that could not run.            *)
(***************************************************************************)
\* C38: the safety check does not end with the summary 'All checks passed!
\* Safe to proceed' when one of its four checks could not run because its
\* git query failed.
C38_NoPassOverFailedQuery ==
    (pc = "check_done" /\ outcome = "all checks passed")
        => \A k \in 1..4 : ~checkFailed[k]

(***************************************************************************)
(* C39: the first steps of Quick Release.                                  *)
(***************************************************************************)
\* command number i of the session was issued and failed
FailedAt(i) == Len(calls) >= i /\ ~calls[i].ok

\* the process ended with code 1 on command number i, the menu not shown
EndedAt(i) ==
    /\ pc = "done"
    /\ exitCode = 1
    /\ Len(calls) = i
    /\ allCommits = <<>>
    /\ \A j \in 1..Len(calls) : calls[j].cmd \notin {"cherry-pick", "push"}

\* C39: in Quick Release a failed fetch and a failed checkout of develop end
\* the process with exit code 1 before the menu is shown, with no
\* cherry-pick and no push; a failed pull is a warning, and the run goes on
\* to load the commits of origin/develop.
C39_FetchAndCheckoutFatalPullNot ==
    workflow = "quick" =>
        /\ Len(calls) >= 1 => calls[1] \in {Fetch(TRUE), Fetch(FALSE)}
        /\ Len(calls) >= 2 => calls[2].cmd = "checkout" /\ calls[2].ref = "develop"
        /\ Len(calls) >= 3 => calls[3].cmd = "pull"
        /\ FailedAt(1) => EndedAt(1)
        /\ FailedAt(2) => EndedAt(2)
        /\ FailedAt(3) =>
              \/ pc = "qr_load" /\ exitCode = -1 /\ Len(calls) = 3
              \/ Len(calls) >= 4 /\ calls[4] \in {Query("log", TRUE), Query("log", FALSE)}

\* the pull failed and the menu is shown over the commits of origin/develop
C39_Witness ==
    /\ workflow = "quick"
    /\ FailedAt(3)
    /\ pc = "qr_menu"
    /\ allCommits # <<>>

\* the fetch failed
C39_WitnessFetch ==
    /\ workflow = "quick"
    /\ FailedAt(1)
    /\ EndedAt(1)

\* the checkout of develop failed
C39_WitnessCheckout ==
    /\ workflow = "quick"
    /\ FailedAt(2)
    /\ EndedAt(2)

(***************************************************************************)
(* C40: the target branch of the interactive menu.                         *)
(***************************************************************************)
\* C40: in every state of the interactive menu the target branch is a
\* non-empty name: it is `release` when the menu starts, an empty answer to
\* the set-target-branch prompt keeps the name, and reset puts `release`
\* back.
C40_TargetBranchNonEmpty ==
    /\ workflow = "interactive" => targetBranch # ""
    /\ pc = "im_fetch" => targetBranch = "release"

\* another target branch was set in the interactive menu
C40_Witness ==
    /\ workflow = "interactive"
    /\ pc = "im_menu"
    /\ targetBranch = "hotfix"

====
